---- MODULE Spec2Model ----
(***************************************************************************)
(* The four socket programs of the repository (tcp_server.cpp,             *)
(* tcp_client.cpp, udp_server.cpp, udp_client.cpp) as processes that run   *)
(* against a model of the kernel's socket layer.  One action is one system *)
(* call of a program together with the branch of main() that handles its   *)
(* result.  A blocking call is an action that is enabled only when the     *)
(* kernel can complete it.                                                 *)
(***************************************************************************)
EXTENDS Integers, Sequences, FiniteSets, TLC

(* ------------------------------ constants ------------------------------ *)

PORT == 8080
BUFFER_SIZE == 1024
MAX_PENDING_CONNECTIONS == 5

\* Bounds of the model: how far beyond BUFFER_SIZE a message may reach, and
\* how many system calls the kernel may fail for reasons outside the programs
\* (EINTR, ENOMEM, ECONNRESET, ...).
MaxExtra == 0
MaxFaults == 2

\* Exit status of a process that has not returned from main().
Running == -1

\* First descriptor a process gets (0, 1, 2 are the standard streams).
FirstFd == 3

StreamServers == {"ts1", "ts2"}
StreamClients == {"tc1", "tc2"}
DatagramServers == {"us"}
DatagramClients == {"ua", "ub"}

(* ------------------------------- helpers ------------------------------- *)

Min(a, b) == IF a <= b THEN a ELSE b
Max(a, b) == IF a >= b THEN a ELSE b
Range(q) == {q[i] : i \in 1..Len(q)}
Take(q, n) == SubSeq(q, 1, Min(n, Len(q)))
Drop(q, n) == SubSeq(q, Min(n, Len(q)) + 1, Len(q))

\* std::strlen: the number of bytes before the first NUL of a C string.
StrLen(s) == (CHOOSE i \in 1..Len(s) : s[i] = 0 /\ \A j \in 1..(i - 1) : s[j] # 0) - 1

\* The bytes of a C string, without the terminator.
Chars(s) == SubSeq(s, 1, StrLen(s))

\* A C string holding the given non-NUL bytes.
CStr(bytes) == bytes \o <<0>>

\* n bytes, none of them NUL, that differ from position to position.
Fill(n) == [i \in 1..n |-> 1 + (i % 251)]

\* "Hello from TCP server!", "Hello from TCP client!",
\* "Hello from UDP server!", "Hello from UDP client!"
TcpResponse == <<72, 101, 108, 108, 111, 32, 102, 114, 111, 109, 32, 84, 67, 80, 32, 115, 101, 114, 118, 101, 114, 33, 0>>
TcpRequest == <<72, 101, 108, 108, 111, 32, 102, 114, 111, 109, 32, 84, 67, 80, 32, 99, 108, 105, 101, 110, 116, 33, 0>>
UdpResponse == <<72, 101, 108, 108, 111, 32, 102, 114, 111, 109, 32, 85, 68, 80, 32, 115, 101, 114, 118, 101, 114, 33, 0>>
UdpRequest == <<72, 101, 108, 108, 111, 32, 102, 114, 111, 109, 32, 85, 68, 80, 32, 99, 108, 105, 101, 110, 116, 33, 0>>

\* Lengths of the messages the programs are run with, beside the 22 bytes of
\* the source's literal: the empty string and the lengths around the buffer
\* capacity.
RequestLens == {0} \cup ((BUFFER_SIZE - 1)..(BUFFER_SIZE + MaxExtra))

\* The literal of p's source: `message` of a client, `response_message` of a
\* server.
Literal(p) ==
    IF p \in StreamClients THEN TcpRequest
    ELSE IF p \in DatagramClients THEN UdpRequest
    ELSE IF p \in StreamServers THEN TcpResponse
    ELSE UdpResponse

\* The message lengths process p may be run with.
Requests(p) == RequestLens \cup {StrLen(Literal(p))}

\* The message of n bytes: the literal of the source when n is its length,
\* any other C string of that length otherwise (the claims range over the
\* message's length).
RequestOf(p, n) == IF n = StrLen(Literal(p)) THEN Literal(p) ELSE CStr(Fill(n))

\* char buffer[BUFFER_SIZE] = {0}: kept as its prefix up to the highest index
\* written so far; every byte beyond it is still 0.
EmptyBuffer == <<>>

\* recv/recvfrom copies `data` to buffer[0..n-1] and the program then writes
\* buffer[n] = '\0' (n = Len(data)); bytes written earlier beyond n stay.
Store(buf, data) ==
    [i \in 1..Max(Len(buf), Len(data) + 1) |->
        IF i <= Len(data) THEN data[i]
        ELSE IF i = Len(data) + 1 THEN 0
        ELSE buf[i]]

\* The byte at buffer[i] (C index, from 0).
BufAt(buf, i) == IF i + 1 <= Len(buf) THEN buf[i + 1] ELSE 0

\* Variant of RecvLen: half the buffer is passed as the length.
HalfRecvLen == (BUFFER_SIZE \div 2) - 1

\* Variant of RecvLen: the whole buffer is passed as the length.
FullRecvLen == BUFFER_SIZE

\* The third argument of every recv/recvfrom call.
RecvLen == BUFFER_SIZE - 1

(* ------------------------------ endpoints ------------------------------ *)

LOOPBACK == "127.0.0.1"
Endpoint(a, n) == [addr |-> a, port |-> n]
NoEndpoint == Endpoint("", 0)

\* The port the kernel gives the unbound socket of a client.
EphemeralPort(p) ==
    CASE p = "tc1" -> 40001
      [] p = "tc2" -> 40002
      [] p = "ua" -> 40003
      [] p = "ub" -> 40004
      [] OTHER -> 0

\* The local endpoint of process p's socket as its peers see it.
LocalEndpoint(p) ==
    IF p \in StreamServers \cup DatagramServers
    THEN Endpoint(LOOPBACK, PORT)
    ELSE Endpoint(LOOPBACK, EphemeralPort(p))

\* inet_pton(AF_INET, text, ...): 1 for a well-formed IPv4 literal, else 0.
Ipv4Literals == {LOOPBACK}
ServerIps == {LOOPBACK, "256.0.0.1"}
InetPton(text) == IF text \in Ipv4Literals THEN 1 ELSE 0

(* -------------------------------- state -------------------------------- *)

VARIABLES
    pc,          \* pc[p]: the system call process p makes next, or "done"
    exitCode,    \* exitCode[p]: the value main() returned, Running before
    mem,         \* mem[p]: the local variables of main() of process p
    msgLen,      \* msgLen[p]: the length of the message p is run with
    server_ip,   \* server_ip[p]: SERVER_IP of a client
    trace,       \* trace[p]: the system calls and the console output of p
    sock,        \* kernel: sock[<<p, fd>>], the socket behind descriptor fd of p
    conn,        \* kernel: conn[c], the TCP connection of stream client c
    acceptq,     \* kernel: acceptq[s], connections waiting on s's listener
    inbox,       \* kernel: inbox[p], datagrams queued on p's UDP socket
    faultsLeft   \* how many more system calls the kernel may fail

vars == <<pc, exitCode, mem, msgLen, server_ip, trace, sock, conn, acceptq,
          inbox, faultsLeft>>

Active == DOMAIN pc

\* const char* message of client p.
message(p) == RequestOf(p, msgLen[p])
\* const char* response_message of server p.
response_message(p) == RequestOf(p, msgLen[p])
Clients == StreamClients \cup DatagramClients
Servers == StreamServers \cup DatagramServers

(* --------------------------- trace of a process ------------------------ *)

\* A system call of the program with its result.
Call(op, fd, res) == [op |-> op, fd |-> fd, res |-> res, ep |-> NoEndpoint, txt |-> ""]
\* sendto/recvfrom/accept: a call that carries a peer endpoint.
CallEp(op, fd, res, ep) == [op |-> op, fd |-> fd, res |-> res, ep |-> ep, txt |-> ""]
\* A line written to std::cout or std::cerr.
Say(stream, txt) == [op |-> stream, fd |-> -1, res |-> 0, ep |-> NoEndpoint, txt |-> txt]

Log(p, evs) == trace' = [trace EXCEPT ![p] = @ \o evs]
Goto(p, label) == pc' = [pc EXCEPT ![p] = label] /\ UNCHANGED exitCode
\* Variant of Return: every path of main() returns 0.
ReturnZero(p, code) ==
    /\ pc' = [pc EXCEPT ![p] = "done"]
    /\ exitCode' = [exitCode EXCEPT ![p] = 0]


Return(p, code) ==
    /\ pc' = [pc EXCEPT ![p] = "done"]
    /\ exitCode' = [exitCode EXCEPT ![p] = code]

(* ------------------------------- kernel -------------------------------- *)

NoSocket == [type |-> "none", st |-> "none", bound |-> FALSE, listening |-> FALSE,
             reuse |-> FALSE, closes |-> 0]
NewSocket(type) == [NoSocket EXCEPT !.type = type, !.st = "open"]
NoConn == [st |-> "none", srv |-> "", c2s |-> <<>>, s2c |-> <<>>,
           cClosed |-> FALSE, sClosed |-> FALSE, rst |-> FALSE]

\* Outcome -1 for a reason outside the program, while the budget lasts.
Fault == IF faultsLeft > 0 THEN {-1} ELSE {}
\* r was drawn from legit \cup Fault: only a result the kernel's state does
\* not explain uses up the budget.
Spend(r, legit) == faultsLeft' = IF r \in legit THEN faultsLeft ELSE faultsLeft - 1

\* close(fd) on the socket table.
Closed(tab, id) ==
    [tab EXCEPT ![id] = [@ EXCEPT !.st = "closed", !.bound = FALSE,
                                  !.listening = FALSE, !.closes = @ + 1]]

\* bind(): Linux refuses the port when another open socket of the same type
\* holds it, unless both sockets set SO_REUSEADDR and (TCP) the other one is
\* not listening.
BindResult(id) ==
    IF \E o \in DOMAIN sock \ {id} :
           /\ sock[o].type = sock[id].type
           /\ sock[o].st = "open"
           /\ sock[o].bound
           /\ ~(sock[o].reuse /\ sock[id].reuse /\ ~sock[o].listening)
    THEN -1 ELSE 0

\* listen(): EADDRINUSE when another socket already listens on the port.
ListenResult(id) ==
    IF \E o \in DOMAIN sock \ {id} :
           sock[o].type = "stream" /\ sock[o].st = "open" /\ sock[o].listening
    THEN -1 ELSE 0

\* The stream servers whose listening socket can take a new connection.
Listeners ==
    {s \in Active \cap StreamServers :
        /\ sock[<<s, FirstFd>>].st = "open"
        /\ sock[<<s, FirstFd>>].listening}

\* The connection server s accepted.
ConnOf(s) == CHOOSE c \in DOMAIN conn : conn[c].st = "accepted" /\ conn[c].srv = s

\* Closing a listening socket resets the connections nobody accepted.
ResetQueued(cn, q) ==
    [c \in DOMAIN cn |->
        IF c \in Range(q) THEN [cn[c] EXCEPT !.rst = TRUE, !.sClosed = TRUE] ELSE cn[c]]

\* What a blocking recv on a stream returns: queued bytes (at most `len`),
\* else -1 after a reset, else 0 after the peer's close, else it blocks.
StreamRecvResult(queue, rst, peerClosed, len) ==
    IF queue # <<>> THEN {Min(Len(queue), len)}
    ELSE IF rst THEN (IF peerClosed THEN {-1, 0} ELSE {-1})
    ELSE IF peerClosed THEN {0}
    ELSE {}

(* ---------------------- StreamEchoServer: tcp_server.cpp --------------- *)

\* A local variable of main() that has not been assigned yet.
Uninit == -2

StreamServerMem ==
    [server_socket |-> Uninit, client_socket |-> Uninit,
     client_address |-> NoEndpoint, buffer |-> EmptyBuffer, bytes_received |-> Uninit]

\* server_socket = socket(AF_INET, SOCK_STREAM, 0)
TsSocket(s) ==
    /\ pc[s] = "socket"
    /\ \E r \in {FirstFd} \cup Fault :
        /\ Spend(r, {FirstFd})
        /\ mem' = [mem EXCEPT ![s].server_socket = r]
        /\ IF r = -1
           THEN /\ Log(s, <<Call("socket", -1, r), Say("cerr", "Could not create socket")>>)
                /\ Return(s, 1)
                /\ UNCHANGED sock
           ELSE /\ Log(s, <<Call("socket", -1, r), Say("cout", "Server socket created")>>)
                /\ Goto(s, "setsockopt")
                /\ sock' = [sock EXCEPT ![<<s, r>>] = NewSocket("stream")]
    /\ UNCHANGED <<msgLen, server_ip, conn, acceptq, inbox>>

\* setsockopt(server_socket, SOL_SOCKET, SO_REUSEADDR, ...): a failure is
\* only a warning.
TsSetsockopt(s) ==
    /\ pc[s] = "setsockopt"
    /\ LET fd == mem[s].server_socket IN
       \E r \in {0} \cup Fault :
        /\ Spend(r, {0})
        /\ IF r = -1
           THEN /\ Log(s, <<Call("setsockopt", fd, r), Say("cerr", "setsockopt SO_REUSEADDR failed")>>)
                /\ UNCHANGED sock
           ELSE /\ Log(s, <<Call("setsockopt", fd, r)>>)
                /\ sock' = [sock EXCEPT ![<<s, fd>>].reuse = TRUE]
    /\ Goto(s, "bind")
    /\ UNCHANGED <<mem, msgLen, server_ip, conn, acceptq, inbox>>

\* Variant of TsBind: a failed bind is reported and the server goes on to
\* listen.
TsBindGoesOn(s) ==
    /\ pc[s] = "bind"
    /\ LET fd == mem[s].server_socket
           id == <<s, fd>>
           legit == {BindResult(id)}
       IN \E r \in legit \cup Fault :
        /\ Spend(r, legit)
        /\ IF r = -1
           THEN /\ Log(s, <<Call("bind", fd, r), Say("cerr", "Bind failed")>>)
                /\ UNCHANGED sock
           ELSE /\ Log(s, <<Call("bind", fd, r), Say("cout", "Socket bound")>>)
                /\ sock' = [sock EXCEPT ![id].bound = TRUE]
        /\ Goto(s, "listen")
    /\ UNCHANGED <<mem, msgLen, server_ip, conn, acceptq, inbox>>

\* bind(server_socket, INADDR_ANY:PORT); on failure close and return 1.
TsBind(s) ==
    /\ pc[s] = "bind"
    /\ LET fd == mem[s].server_socket
           id == <<s, fd>>
           legit == {BindResult(id)}
       IN \E r \in legit \cup Fault :
        /\ Spend(r, legit)
        /\ IF r = -1
           THEN /\ Log(s, <<Call("bind", fd, r), Say("cerr", "Bind failed"),
                            Call("close", fd, 0)>>)
                /\ sock' = Closed(sock, id)
                /\ Return(s, 1)
           ELSE /\ Log(s, <<Call("bind", fd, r), Say("cout", "Socket bound")>>)
                /\ sock' = [sock EXCEPT ![id].bound = TRUE]
                /\ Goto(s, "listen")
    /\ UNCHANGED <<mem, msgLen, server_ip, conn, acceptq, inbox>>

\* listen(server_socket, MAX_PENDING_CONNECTIONS); on failure close and
\* return 1.
TsListen(s) ==
    /\ pc[s] = "listen"
    /\ LET fd == mem[s].server_socket
           id == <<s, fd>>
           legit == {ListenResult(id)}
       IN \E r \in legit \cup Fault :
        /\ Spend(r, legit)
        /\ IF r = -1
           THEN /\ Log(s, <<Call("listen", fd, r), Say("cerr", "Listen failed"),
                            Call("close", fd, 0)>>)
                /\ sock' = Closed(sock, id)
                /\ Return(s, 1)
           ELSE /\ Log(s, <<Call("listen", fd, r), Say("cout", "Server listening")>>)
                /\ sock' = [sock EXCEPT ![id].listening = TRUE]
                /\ Goto(s, "accept")
    /\ UNCHANGED <<mem, msgLen, server_ip, conn, acceptq, inbox>>

\* client_socket = accept(server_socket, &client_address, ...): blocks until
\* a connection is queued; on failure close the listener and return 1.
TsAccept(s) ==
    /\ pc[s] = "accept"
    /\ LET fd == mem[s].server_socket
           id == <<s, fd>>
           legit == IF acceptq[s] # <<>> THEN {FirstFd + 1} ELSE {}
       IN \E r \in legit \cup Fault :
        /\ Spend(r, legit)
        /\ IF r = -1
           THEN /\ Log(s, <<Call("accept", fd, r), Say("cerr", "Accept failed"),
                            Call("close", fd, 0)>>)
                /\ mem' = [mem EXCEPT ![s].client_socket = r]
                /\ sock' = Closed(sock, id)
                /\ conn' = ResetQueued(conn, acceptq[s])
                /\ acceptq' = [acceptq EXCEPT ![s] = <<>>]
                /\ Return(s, 1)
           ELSE LET c == Head(acceptq[s]) IN
                /\ Log(s, <<CallEp("accept", fd, r, LocalEndpoint(c)),
                            Say("cout", "Accepted connection")>>)
                /\ mem' = [mem EXCEPT ![s].client_socket = r,
                                      ![s].client_address = LocalEndpoint(c)]
                /\ sock' = [sock EXCEPT ![<<s, r>>] = NewSocket("stream")]
                /\ conn' = [conn EXCEPT ![c].st = "accepted", ![c].srv = s]
                /\ acceptq' = [acceptq EXCEPT ![s] = Tail(@)]
                /\ Goto(s, "recv")
    /\ UNCHANGED <<msgLen, server_ip, inbox>>

\* Variant of TsRecv: the reply is sent after a zero-byte receive as well.
TsRecvZeroReplies(s) ==
    /\ pc[s] = "recv"
    /\ LET fd == mem[s].client_socket
           c == ConnOf(s)
           legit == StreamRecvResult(conn[c].c2s, conn[c].rst, conn[c].cClosed, RecvLen)
       IN \E r \in legit \cup Fault :
        /\ Spend(r, legit)
        /\ IF r = -1
           THEN /\ Log(s, <<Call("recv", fd, r), Say("cerr", "Receive failed")>>)
                /\ mem' = [mem EXCEPT ![s].bytes_received = r]
                /\ UNCHANGED conn
                /\ Goto(s, "close_client")
           ELSE IF r = 0
           THEN /\ Log(s, <<Call("recv", fd, r), Say("cout", "Client disconnected")>>)
                /\ mem' = [mem EXCEPT ![s].bytes_received = r]
                /\ UNCHANGED conn
                /\ Goto(s, "send")
           ELSE /\ Log(s, <<Call("recv", fd, r), Say("cout", "Message received from client")>>)
                /\ mem' = [mem EXCEPT ![s].bytes_received = r,
                                      ![s].buffer = Store(@, Take(conn[c].c2s, r))]
                /\ conn' = [conn EXCEPT ![c].c2s = Drop(@, r)]
                /\ Goto(s, "send")
    /\ UNCHANGED <<msgLen, server_ip, sock, acceptq, inbox>>

\* bytes_received = recv(client_socket, buffer, BUFFER_SIZE - 1, 0) and the
\* three branches on its result.
TsRecv(s) ==
    /\ pc[s] = "recv"
    /\ LET fd == mem[s].client_socket
           c == ConnOf(s)
           legit == StreamRecvResult(conn[c].c2s, conn[c].rst, conn[c].cClosed, RecvLen)
       IN \E r \in legit \cup Fault :
        /\ Spend(r, legit)
        /\ IF r = -1
           THEN /\ Log(s, <<Call("recv", fd, r), Say("cerr", "Receive failed")>>)
                /\ mem' = [mem EXCEPT ![s].bytes_received = r]
                /\ UNCHANGED conn
                /\ Goto(s, "close_client")
           ELSE IF r = 0
           THEN /\ Log(s, <<Call("recv", fd, r), Say("cout", "Client disconnected")>>)
                /\ mem' = [mem EXCEPT ![s].bytes_received = r]
                /\ UNCHANGED conn
                /\ Goto(s, "close_client")
           ELSE /\ Log(s, <<Call("recv", fd, r), Say("cout", "Message received from client")>>)
                /\ mem' = [mem EXCEPT ![s].bytes_received = r,
                                      ![s].buffer = Store(@, Take(conn[c].c2s, r))]
                /\ conn' = [conn EXCEPT ![c].c2s = Drop(@, r)]
                /\ Goto(s, "send")
    /\ UNCHANGED <<msgLen, server_ip, sock, acceptq, inbox>>

\* Variant of TsSend: after the reply the server receives again.
TsSendLoop(s) ==
    /\ pc[s] = "send"
    /\ LET fd == mem[s].client_socket
           c == ConnOf(s)
           n == StrLen(response_message(s))
           legit == IF conn[c].rst THEN {-1} ELSE {n}
       IN \E r \in legit \cup Fault :
        /\ Spend(r, legit)
        /\ IF r = -1
           THEN /\ Log(s, <<Call("send", fd, r), Say("cerr", "Send failed")>>)
                /\ UNCHANGED conn
           ELSE /\ Log(s, <<Call("send", fd, r), Say("cout", "Response sent to client")>>)
                /\ conn' = IF conn[c].cClosed
                           THEN [conn EXCEPT ![c].rst = TRUE]
                           ELSE [conn EXCEPT ![c].s2c = @ \o Take(response_message(s), r)]
    /\ Goto(s, "recv")
    /\ UNCHANGED <<mem, msgLen, server_ip, sock, acceptq, inbox>>

\* Variant of TsSend: a failed send is reported and main() returns 1 at once,
\* both sockets still open.
TsSendFailReturns(s) ==
    /\ pc[s] = "send"
    /\ LET fd == mem[s].client_socket
           c == ConnOf(s)
           n == StrLen(response_message(s))
           legit == IF conn[c].rst THEN {-1} ELSE {n}
       IN \E r \in legit \cup Fault :
        /\ Spend(r, legit)
        /\ IF r = -1
           THEN /\ Log(s, <<Call("send", fd, r), Say("cerr", "Send failed")>>)
                /\ UNCHANGED conn
                /\ Return(s, 1)
           ELSE /\ Log(s, <<Call("send", fd, r), Say("cout", "Response sent to client")>>)
                /\ conn' = IF conn[c].cClosed
                           THEN [conn EXCEPT ![c].rst = TRUE]
                           ELSE [conn EXCEPT ![c].s2c = @ \o Take(response_message(s), r)]
                /\ Goto(s, "close_client")
    /\ UNCHANGED <<mem, msgLen, server_ip, sock, acceptq, inbox>>

\* bytes_sent = send(client_socket, response_message, strlen(response_message), 0)
TsSend(s) ==
    /\ pc[s] = "send"
    /\ LET fd == mem[s].client_socket
           c == ConnOf(s)
           n == StrLen(response_message(s))
           legit == IF conn[c].rst THEN {-1} ELSE {n}
       IN \E r \in legit \cup Fault :
        /\ Spend(r, legit)
        /\ IF r = -1
           THEN /\ Log(s, <<Call("send", fd, r), Say("cerr", "Send failed")>>)
                /\ UNCHANGED conn
           ELSE /\ Log(s, <<Call("send", fd, r), Say("cout", "Response sent to client")>>)
                /\ conn' = IF conn[c].cClosed
                           THEN [conn EXCEPT ![c].rst = TRUE]
                           ELSE [conn EXCEPT ![c].s2c = @ \o Take(response_message(s), r)]
    /\ Goto(s, "close_client")
    /\ UNCHANGED <<mem, msgLen, server_ip, sock, acceptq, inbox>>

\* Variant of TsCloseServer: main() returns 1 when no request was received.
TsCloseServerExitOne(s) ==
    /\ pc[s] = "close_server"
    /\ LET fd == mem[s].server_socket
       IN /\ Log(s, <<Call("close", fd, 0), Say("cout", "Server socket closed")>>)
          /\ sock' = Closed(sock, <<s, fd>>)
          /\ conn' = ResetQueued(conn, acceptq[s])
          /\ acceptq' = [acceptq EXCEPT ![s] = <<>>]
    /\ Return(s, IF mem[s].bytes_received > 0 THEN 0 ELSE 1)
    /\ UNCHANGED <<mem, msgLen, server_ip, inbox, faultsLeft>>

\* Variant of TsCloseServer: main() returns 0 with the listening socket
\* still open and bound.
TsCloseServerLeak(s) ==
    /\ pc[s] = "close_server"
    /\ Log(s, <<Say("cout", "Server socket closed")>>)
    /\ Return(s, 0)
    /\ UNCHANGED <<mem, msgLen, server_ip, sock, conn, acceptq, inbox, faultsLeft>>

\* Variant of TsCloseClient: after closing the accepted socket the server
\* goes back to accept the next connection.
TsCloseClientAcceptsNext(s) ==
    /\ pc[s] = "close_client"
    /\ LET fd == mem[s].client_socket
           c == ConnOf(s)
       IN /\ Log(s, <<Call("close", fd, 0), Say("cout", "Client socket closed")>>)
          /\ sock' = Closed(sock, <<s, fd>>)
          /\ conn' = [conn EXCEPT ![c].sClosed = TRUE,
                                  ![c].st = "served",
                                  ![c].rst = @ \/ conn[c].c2s # <<>>]
    /\ Goto(s, "accept")
    /\ UNCHANGED <<mem, msgLen, server_ip, acceptq, inbox, faultsLeft>>

\* Variant of TsCloseClient: the accepted socket is never closed.
TsCloseClientLeak(s) ==
    /\ pc[s] = "close_client"
    /\ Log(s, <<Say("cout", "Client socket closed")>>)
    /\ Goto(s, "close_server")
    /\ UNCHANGED <<mem, msgLen, server_ip, sock, conn, acceptq, inbox, faultsLeft>>

\* close(client_socket): unread bytes make the kernel reset the connection.
TsCloseClient(s) ==
    /\ pc[s] = "close_client"
    /\ LET fd == mem[s].client_socket
           c == ConnOf(s)
       IN /\ Log(s, <<Call("close", fd, 0), Say("cout", "Client socket closed")>>)
          /\ sock' = Closed(sock, <<s, fd>>)
          /\ conn' = [conn EXCEPT ![c].sClosed = TRUE,
                                  ![c].rst = @ \/ conn[c].c2s # <<>>]
    /\ Goto(s, "close_server")
    /\ UNCHANGED <<mem, msgLen, server_ip, acceptq, inbox, faultsLeft>>

\* close(server_socket); return 0
TsCloseServer(s) ==
    /\ pc[s] = "close_server"
    /\ LET fd == mem[s].server_socket
       IN /\ Log(s, <<Call("close", fd, 0), Say("cout", "Server socket closed")>>)
          /\ sock' = Closed(sock, <<s, fd>>)
          /\ conn' = ResetQueued(conn, acceptq[s])
          /\ acceptq' = [acceptq EXCEPT ![s] = <<>>]
    /\ Return(s, 0)
    /\ UNCHANGED <<mem, msgLen, server_ip, inbox, faultsLeft>>

(* ---------------------- StreamEchoClient: tcp_client.cpp --------------- *)

ClientMem ==
    [client_socket |-> Uninit, server_address |-> NoEndpoint,
     buffer |-> EmptyBuffer, bytes_received |-> Uninit]

\* close(client_socket) as the server's end of the connection sees it.
ClientEndClosed(c) ==
    IF conn[c].st = "none" THEN conn
    ELSE [conn EXCEPT ![c].cClosed = TRUE, ![c].rst = @ \/ conn[c].s2c # <<>>]

\* client_socket = socket(AF_INET, SOCK_STREAM, 0)
TcSocket(c) ==
    /\ pc[c] = "socket"
    /\ \E r \in {FirstFd} \cup Fault :
        /\ Spend(r, {FirstFd})
        /\ mem' = [mem EXCEPT ![c].client_socket = r]
        /\ IF r = -1
           THEN /\ Log(c, <<Call("socket", -1, r), Say("cerr", "Could not create socket")>>)
                /\ Return(c, 1)
                /\ UNCHANGED sock
           ELSE /\ Log(c, <<Call("socket", -1, r), Say("cout", "Socket created")>>)
                /\ Goto(c, "inet_pton")
                /\ sock' = [sock EXCEPT ![<<c, r>>] = NewSocket("stream")]
    /\ UNCHANGED <<msgLen, server_ip, conn, acceptq, inbox>>

\* inet_pton(AF_INET, SERVER_IP, &server_address.sin_addr) <= 0: close and
\* return 1.
TcInetPton(c) ==
    /\ pc[c] = "inet_pton"
    /\ LET fd == mem[c].client_socket
           r == InetPton(server_ip[c])
       IN IF r <= 0
          THEN /\ Log(c, <<Call("inet_pton", -1, r), Say("cerr", "Invalid address"),
                           Call("close", fd, 0)>>)
               /\ sock' = Closed(sock, <<c, fd>>)
               /\ Return(c, 1)
               /\ UNCHANGED mem
          ELSE /\ Log(c, <<Call("inet_pton", -1, r)>>)
               /\ mem' = [mem EXCEPT ![c].server_address = Endpoint(server_ip[c], PORT)]
               /\ Goto(c, "connect")
               /\ UNCHANGED sock
    /\ UNCHANGED <<msgLen, server_ip, conn, acceptq, inbox, faultsLeft>>

\* connect(client_socket, &server_address): refused when nobody listens on
\* the port, queued on the listener otherwise (it waits while the queue is
\* full); on failure close and return 1.
TcConnect(c) ==
    /\ pc[c] = "connect"
    /\ LET fd == mem[c].client_socket
           room == {s \in Listeners : Len(acceptq[s]) < MAX_PENDING_CONNECTIONS}
           legit == IF Listeners = {} THEN {-1} ELSE IF room # {} THEN {0} ELSE {}
       IN \E r \in legit \cup Fault :
        /\ Spend(r, legit)
        /\ IF r = -1
           THEN /\ Log(c, <<Call("connect", fd, r), Say("cerr", "Connection failed"),
                            Call("close", fd, 0)>>)
                /\ sock' = Closed(sock, <<c, fd>>)
                /\ Return(c, 1)
                /\ UNCHANGED <<conn, acceptq>>
           ELSE LET s == CHOOSE l \in room : TRUE IN
                /\ Log(c, <<Call("connect", fd, r), Say("cout", "Connected to server")>>)
                /\ conn' = [conn EXCEPT ![c] = [NoConn EXCEPT !.st = "queued", !.srv = s]]
                /\ acceptq' = [acceptq EXCEPT ![s] = Append(@, c)]
                /\ Goto(c, "send")
                /\ UNCHANGED sock
    /\ UNCHANGED <<mem, msgLen, server_ip, inbox>>

\* Variant of TcSend: a failed send is reported and the client goes on to
\* receive.
TcSendGoesOn(c) ==
    /\ pc[c] = "send"
    /\ LET fd == mem[c].client_socket
           n == StrLen(message(c))
           legit == IF conn[c].rst THEN {-1} ELSE {n}
       IN \E r \in legit \cup Fault :
        /\ Spend(r, legit)
        /\ IF r = -1
           THEN /\ Log(c, <<Call("send", fd, r), Say("cerr", "Send failed")>>)
                /\ UNCHANGED conn
           ELSE /\ Log(c, <<Call("send", fd, r), Say("cout", "Message sent")>>)
                /\ conn' = IF conn[c].sClosed
                           THEN [conn EXCEPT ![c].rst = @ \/ r > 0]
                           ELSE [conn EXCEPT ![c].c2s = @ \o Take(message(c), r)]
        /\ Goto(c, "recv")
        /\ UNCHANGED sock
    /\ UNCHANGED <<mem, msgLen, server_ip, acceptq, inbox>>

\* bytes_sent = send(client_socket, message, strlen(message), 0); on failure
\* close and return 1.
TcSend(c) ==
    /\ pc[c] = "send"
    /\ LET fd == mem[c].client_socket
           n == StrLen(message(c))
           legit == IF conn[c].rst THEN {-1} ELSE {n}
       IN \E r \in legit \cup Fault :
        /\ Spend(r, legit)
        /\ IF r = -1
           THEN /\ Log(c, <<Call("send", fd, r), Say("cerr", "Send failed"),
                            Call("close", fd, 0)>>)
                /\ sock' = Closed(sock, <<c, fd>>)
                /\ conn' = ClientEndClosed(c)
                /\ Return(c, 1)
           ELSE /\ Log(c, <<Call("send", fd, r), Say("cout", "Message sent")>>)
                /\ conn' = IF conn[c].sClosed
                           THEN [conn EXCEPT ![c].rst = @ \/ r > 0]
                           ELSE [conn EXCEPT ![c].c2s = @ \o Take(message(c), r)]
                /\ Goto(c, "recv")
                /\ UNCHANGED sock
    /\ UNCHANGED <<mem, msgLen, server_ip, acceptq, inbox>>

\* bytes_received = recv(client_socket, buffer, BUFFER_SIZE - 1, 0) and the
\* three branches on its result.
TcRecv(c) ==
    /\ pc[c] = "recv"
    /\ LET fd == mem[c].client_socket
           legit == StreamRecvResult(conn[c].s2c, conn[c].rst, conn[c].sClosed, RecvLen)
       IN \E r \in legit \cup Fault :
        /\ Spend(r, legit)
        /\ IF r = -1
           THEN /\ Log(c, <<Call("recv", fd, r), Say("cerr", "Receive failed"),
                            Call("close", fd, 0)>>)
                /\ mem' = [mem EXCEPT ![c].bytes_received = r]
                /\ sock' = Closed(sock, <<c, fd>>)
                /\ conn' = ClientEndClosed(c)
                /\ Return(c, 1)
           ELSE IF r = 0
           THEN /\ Log(c, <<Call("recv", fd, r), Say("cout", "Server closed the connection")>>)
                /\ mem' = [mem EXCEPT ![c].bytes_received = r]
                /\ UNCHANGED <<sock, conn>>
                /\ Goto(c, "close")
           ELSE /\ Log(c, <<Call("recv", fd, r), Say("cout", "Message received")>>)
                /\ mem' = [mem EXCEPT ![c].bytes_received = r,
                                      ![c].buffer = Store(@, Take(conn[c].s2c, r))]
                /\ conn' = [conn EXCEPT ![c].s2c = Drop(@, r)]
                /\ UNCHANGED sock
                /\ Goto(c, "close")
    /\ UNCHANGED <<msgLen, server_ip, acceptq, inbox>>

\* Variant of TcClose: main() returns without closing the socket.
TcCloseLeak(c) ==
    /\ pc[c] = "close"
    /\ Log(c, <<Say("cout", "Socket closed")>>)
    /\ Return(c, 0)
    /\ UNCHANGED <<mem, msgLen, server_ip, sock, conn, acceptq, inbox, faultsLeft>>

\* close(client_socket); return 0
TcClose(c) ==
    /\ pc[c] = "close"
    /\ LET fd == mem[c].client_socket
       IN /\ Log(c, <<Call("close", fd, 0), Say("cout", "Socket closed")>>)
          /\ sock' = Closed(sock, <<c, fd>>)
          /\ conn' = ClientEndClosed(c)
    /\ Return(c, 0)
    /\ UNCHANGED <<mem, msgLen, server_ip, acceptq, inbox, faultsLeft>>

(* --------------------- DatagramEchoServer: udp_server.cpp -------------- *)

\* struct sockaddr_in client_address is not initialised; recvfrom fills it
\* before the program reads it.
DatagramServerMem ==
    [server_socket |-> Uninit, client_address |-> NoEndpoint,
     buffer |-> EmptyBuffer, bytes_received |-> Uninit]

Datagram(src, data) == [src |-> src, data |-> data]

\* The kernel queues a datagram on the open socket bound to `dest`; with no
\* such socket the datagram is discarded.
Deliver(box, dest, d) ==
    [p \in DOMAIN box |->
        IF /\ sock[<<p, FirstFd>>].st = "open"
           /\ sock[<<p, FirstFd>>].bound
           /\ LocalEndpoint(p) = dest
        THEN Append(box[p], d)
        ELSE box[p]]

\* Variant of CapturedSender: the address is written once and then kept.
KeepFirstSender(old, d) == IF old = NoEndpoint THEN d.src ELSE old

\* The address recvfrom writes to its src_addr argument: the sender of the
\* datagram it returns, whatever the variable held before.
CapturedSender(old, d) == d.src

\* Variant of DatagramRecvResult: the whole datagram is returned, whatever
\* the length asked for.
DatagramRecvWhole(queue, len) ==
    IF queue # <<>> THEN {Len(Head(queue).data)} ELSE {}

\* Variant of DatagramRecvResult: a receive timeout is set on the socket, so
\* recvfrom returns -1 when no datagram is queued.
DatagramRecvTimesOut(queue, len) ==
    IF queue # <<>> THEN {Min(Len(Head(queue).data), len)} ELSE {-1}

\* What a blocking recvfrom returns: the length of the first queued
\* datagram, cut to `len`; it blocks while none is queued.
DatagramRecvResult(queue, len) ==
    IF queue # <<>> THEN {Min(Len(Head(queue).data), len)} ELSE {}

\* server_socket = socket(AF_INET, SOCK_DGRAM, 0)
UsSocket(u) ==
    /\ pc[u] = "socket"
    /\ \E r \in {FirstFd} \cup Fault :
        /\ Spend(r, {FirstFd})
        /\ mem' = [mem EXCEPT ![u].server_socket = r]
        /\ IF r = -1
           THEN /\ Log(u, <<Call("socket", -1, r), Say("cerr", "Could not create socket")>>)
                /\ Return(u, 1)
                /\ UNCHANGED sock
           ELSE /\ Log(u, <<Call("socket", -1, r), Say("cout", "Server socket created")>>)
                /\ Goto(u, "setsockopt")
                /\ sock' = [sock EXCEPT ![<<u, r>>] = NewSocket("dgram")]
    /\ UNCHANGED <<msgLen, server_ip, conn, acceptq, inbox>>

\* setsockopt(server_socket, SOL_SOCKET, SO_REUSEADDR, ...): a failure is
\* only a warning.
UsSetsockopt(u) ==
    /\ pc[u] = "setsockopt"
    /\ LET fd == mem[u].server_socket IN
       \E r \in {0} \cup Fault :
        /\ Spend(r, {0})
        /\ IF r = -1
           THEN /\ Log(u, <<Call("setsockopt", fd, r), Say("cerr", "setsockopt SO_REUSEADDR failed")>>)
                /\ UNCHANGED sock
           ELSE /\ Log(u, <<Call("setsockopt", fd, r)>>)
                /\ sock' = [sock EXCEPT ![<<u, fd>>].reuse = TRUE]
    /\ Goto(u, "bind")
    /\ UNCHANGED <<mem, msgLen, server_ip, conn, acceptq, inbox>>

\* bind(server_socket, INADDR_ANY:PORT); on failure close and return 1.
UsBind(u) ==
    /\ pc[u] = "bind"
    /\ LET fd == mem[u].server_socket
           id == <<u, fd>>
           legit == {BindResult(id)}
       IN \E r \in legit \cup Fault :
        /\ Spend(r, legit)
        /\ IF r = -1
           THEN /\ Log(u, <<Call("bind", fd, r), Say("cerr", "Bind failed"),
                            Call("close", fd, 0)>>)
                /\ sock' = Closed(sock, id)
                /\ Return(u, 1)
           ELSE /\ Log(u, <<Call("bind", fd, r), Say("cout", "Socket bound"),
                            Say("cout", "UDP Server listening")>>)
                /\ sock' = [sock EXCEPT ![id].bound = TRUE]
                /\ Goto(u, "recvfrom")
    /\ UNCHANGED <<mem, msgLen, server_ip, conn, acceptq, inbox>>

\* Variant of UsRecvfrom: a failed recvfrom continues the loop without a
\* report.
UsRecvfromSilent(u) ==
    /\ pc[u] = "recvfrom"
    /\ LET fd == mem[u].server_socket
           legit == DatagramRecvResult(inbox[u], RecvLen)
       IN \E r \in legit \cup Fault :
        /\ Spend(r, legit)
        /\ IF r = -1
           THEN /\ Log(u, <<Call("recvfrom", fd, r)>>)
                /\ mem' = [mem EXCEPT ![u].bytes_received = r]
                /\ UNCHANGED inbox
                /\ Goto(u, "recvfrom")
           ELSE LET d == Head(inbox[u]) IN
                /\ inbox' = [inbox EXCEPT ![u] = Tail(@)]
                /\ IF r = 0
                   THEN /\ Log(u, <<CallEp("recvfrom", fd, r, d.src),
                                    Say("cout", "Received empty datagram")>>)
                        /\ mem' = [mem EXCEPT ![u].bytes_received = r,
                                              ![u].client_address = CapturedSender(mem[u].client_address, d)]
                        /\ Goto(u, "recvfrom")
                   ELSE /\ Log(u, <<CallEp("recvfrom", fd, r, d.src),
                                    Say("cout", "Received from")>>)
                        /\ mem' = [mem EXCEPT ![u].bytes_received = r,
                                              ![u].client_address = CapturedSender(mem[u].client_address, d),
                                              ![u].buffer = Store(@, Take(d.data, r))]
                        /\ Goto(u, "sendto")
    /\ UNCHANGED <<msgLen, server_ip, sock, conn, acceptq>>

\* Variant of UsRecvfrom: an empty datagram is answered as well.
UsRecvfromEmptyReplies(u) ==
    /\ pc[u] = "recvfrom"
    /\ LET fd == mem[u].server_socket
           legit == DatagramRecvResult(inbox[u], RecvLen)
       IN \E r \in legit \cup Fault :
        /\ Spend(r, legit)
        /\ IF r = -1
           THEN /\ Log(u, <<Call("recvfrom", fd, r), Say("cerr", "Recvfrom failed")>>)
                /\ mem' = [mem EXCEPT ![u].bytes_received = r]
                /\ UNCHANGED inbox
                /\ Goto(u, "recvfrom")
           ELSE LET d == Head(inbox[u]) IN
                /\ inbox' = [inbox EXCEPT ![u] = Tail(@)]
                /\ IF r = 0
                   THEN /\ Log(u, <<CallEp("recvfrom", fd, r, d.src),
                                    Say("cout", "Received empty datagram")>>)
                        /\ mem' = [mem EXCEPT ![u].bytes_received = r,
                                              ![u].client_address = CapturedSender(mem[u].client_address, d)]
                        /\ Goto(u, "sendto")
                   ELSE /\ Log(u, <<CallEp("recvfrom", fd, r, d.src),
                                    Say("cout", "Received from")>>)
                        /\ mem' = [mem EXCEPT ![u].bytes_received = r,
                                              ![u].client_address = CapturedSender(mem[u].client_address, d),
                                              ![u].buffer = Store(@, Take(d.data, r))]
                        /\ Goto(u, "sendto")
    /\ UNCHANGED <<msgLen, server_ip, sock, conn, acceptq>>

\* Top of while (true): bytes_received = recvfrom(server_socket, buffer,
\* BUFFER_SIZE - 1, 0, &client_address, &client_address_len) and the three
\* branches on its result; -1 and 0 `continue`.
UsRecvfrom(u) ==
    /\ pc[u] = "recvfrom"
    /\ LET fd == mem[u].server_socket
           legit == DatagramRecvResult(inbox[u], RecvLen)
       IN \E r \in legit \cup Fault :
        /\ Spend(r, legit)
        /\ IF r = -1
           THEN /\ Log(u, <<Call("recvfrom", fd, r), Say("cerr", "Recvfrom failed")>>)
                /\ mem' = [mem EXCEPT ![u].bytes_received = r]
                /\ UNCHANGED inbox
                /\ Goto(u, "recvfrom")
           ELSE LET d == Head(inbox[u]) IN
                /\ inbox' = [inbox EXCEPT ![u] = Tail(@)]
                /\ IF r = 0
                   THEN /\ Log(u, <<CallEp("recvfrom", fd, r, d.src),
                                    Say("cout", "Received empty datagram")>>)
                        /\ mem' = [mem EXCEPT ![u].bytes_received = r,
                                              ![u].client_address = CapturedSender(mem[u].client_address, d)]
                        /\ Goto(u, "recvfrom")
                   ELSE /\ Log(u, <<CallEp("recvfrom", fd, r, d.src),
                                    Say("cout", "Received from")>>)
                        /\ mem' = [mem EXCEPT ![u].bytes_received = r,
                                              ![u].client_address = CapturedSender(mem[u].client_address, d),
                                              ![u].buffer = Store(@, Take(d.data, r))]
                        /\ Goto(u, "sendto")
    /\ UNCHANGED <<msgLen, server_ip, sock, conn, acceptq>>

\* Variant of UsSendto: a failed sendto closes the socket and ends the
\* server.
UsSendtoFatal(u) ==
    /\ pc[u] = "sendto"
    /\ LET fd == mem[u].server_socket
           dest == mem[u].client_address
           n == StrLen(response_message(u))
           legit == {n}
       IN \E r \in legit \cup Fault :
        /\ Spend(r, legit)
        /\ IF r = -1
           THEN /\ Log(u, <<CallEp("sendto", fd, r, dest), Say("cerr", "Sendto failed"),
                            Call("close", fd, 0)>>)
                /\ sock' = Closed(sock, <<u, fd>>)
                /\ UNCHANGED inbox
                /\ Return(u, 1)
           ELSE /\ Log(u, <<CallEp("sendto", fd, r, dest), Say("cout", "Response sent to")>>)
                /\ inbox' = Deliver(inbox, dest,
                                    Datagram(LocalEndpoint(u), Take(response_message(u), r)))
                /\ UNCHANGED sock
                /\ Goto(u, "recvfrom")
    /\ UNCHANGED <<mem, msgLen, server_ip, conn, acceptq>>

\* bytes_sent = sendto(server_socket, response_message,
\* strlen(response_message), 0, &client_address, client_address_len); the
\* loop goes on whatever the result.
UsSendto(u) ==
    /\ pc[u] = "sendto"
    /\ LET fd == mem[u].server_socket
           dest == mem[u].client_address
           n == StrLen(response_message(u))
           legit == {n}
       IN \E r \in legit \cup Fault :
        /\ Spend(r, legit)
        /\ IF r = -1
           THEN /\ Log(u, <<CallEp("sendto", fd, r, dest), Say("cerr", "Sendto failed")>>)
                /\ UNCHANGED inbox
           ELSE /\ Log(u, <<CallEp("sendto", fd, r, dest), Say("cout", "Response sent to")>>)
                /\ inbox' = Deliver(inbox, dest,
                                    Datagram(LocalEndpoint(u), Take(response_message(u), r)))
    /\ Goto(u, "recvfrom")
    /\ UNCHANGED <<mem, msgLen, server_ip, sock, conn, acceptq>>

(* --------------------- DatagramEchoClient: udp_client.cpp -------------- *)

\* client_socket = socket(AF_INET, SOCK_DGRAM, 0)
UcSocket(c) ==
    /\ pc[c] = "socket"
    /\ \E r \in {FirstFd} \cup Fault :
        /\ Spend(r, {FirstFd})
        /\ mem' = [mem EXCEPT ![c].client_socket = r]
        /\ IF r = -1
           THEN /\ Log(c, <<Call("socket", -1, r), Say("cerr", "Could not create socket")>>)
                /\ Return(c, 1)
                /\ UNCHANGED sock
           ELSE /\ Log(c, <<Call("socket", -1, r), Say("cout", "Socket created")>>)
                /\ Goto(c, "inet_pton")
                /\ sock' = [sock EXCEPT ![<<c, r>>] = NewSocket("dgram")]
    /\ UNCHANGED <<msgLen, server_ip, conn, acceptq, inbox>>

\* inet_pton(AF_INET, SERVER_IP, &server_address.sin_addr) <= 0: close and
\* return 1.
UcInetPton(c) ==
    /\ pc[c] = "inet_pton"
    /\ LET fd == mem[c].client_socket
           r == InetPton(server_ip[c])
       IN IF r <= 0
          THEN /\ Log(c, <<Call("inet_pton", -1, r), Say("cerr", "Invalid address"),
                           Call("close", fd, 0)>>)
               /\ sock' = Closed(sock, <<c, fd>>)
               /\ Return(c, 1)
               /\ UNCHANGED mem
          ELSE /\ Log(c, <<Call("inet_pton", -1, r)>>)
               /\ mem' = [mem EXCEPT ![c].server_address = Endpoint(server_ip[c], PORT)]
               /\ Goto(c, "sendto")
               /\ UNCHANGED sock
    /\ UNCHANGED <<msgLen, server_ip, conn, acceptq, inbox, faultsLeft>>

\* bytes_sent = sendto(client_socket, message, strlen(message), 0,
\* &server_address, ...): the kernel binds the socket to an ephemeral port on
\* the first send; on failure close and return 1.
UcSendto(c) ==
    /\ pc[c] = "sendto"
    /\ LET fd == mem[c].client_socket
           dest == mem[c].server_address
           n == StrLen(message(c))
           legit == {n}
       IN \E r \in legit \cup Fault :
        /\ Spend(r, legit)
        /\ IF r = -1
           THEN /\ Log(c, <<CallEp("sendto", fd, r, dest), Say("cerr", "Sendto failed"),
                            Call("close", fd, 0)>>)
                /\ sock' = Closed(sock, <<c, fd>>)
                /\ UNCHANGED inbox
                /\ Return(c, 1)
           ELSE /\ Log(c, <<CallEp("sendto", fd, r, dest), Say("cout", "Message sent to")>>)
                /\ sock' = [sock EXCEPT ![<<c, fd>>].bound = TRUE]
                /\ inbox' = Deliver(inbox, dest,
                                    Datagram(LocalEndpoint(c), Take(message(c), r)))
                /\ Goto(c, "recvfrom")
    /\ UNCHANGED <<mem, msgLen, server_ip, conn, acceptq>>

\* Variant of UcRecvfrom: an empty datagram ends the client like a failed
\* receive, with exit code 1.
UcRecvfromZeroFatal(c) ==
    /\ pc[c] = "recvfrom"
    /\ LET fd == mem[c].client_socket
           legit == DatagramRecvResult(inbox[c], RecvLen)
       IN \E r \in legit \cup Fault :
        /\ Spend(r, legit)
        /\ IF r <= 0
           THEN /\ Log(c, <<Call("recvfrom", fd, r), Say("cerr", "Recvfrom failed"),
                            Call("close", fd, 0)>>)
                /\ mem' = [mem EXCEPT ![c].bytes_received = r]
                /\ sock' = Closed(sock, <<c, fd>>)
                /\ inbox' = [inbox EXCEPT ![c] = <<>>]
                /\ Return(c, 1)
           ELSE LET d == Head(inbox[c]) IN
                /\ inbox' = [inbox EXCEPT ![c] = Tail(@)]
                /\ UNCHANGED sock
                /\ Goto(c, "close")
                /\ Log(c, <<CallEp("recvfrom", fd, r, d.src),
                            Say("cout", "Message received")>>)
                /\ mem' = [mem EXCEPT ![c].bytes_received = r,
                                      ![c].server_address = CapturedSender(mem[c].server_address, d),
                                      ![c].buffer = Store(@, Take(d.data, r))]
    /\ UNCHANGED <<msgLen, server_ip, conn, acceptq>>

\* Variant of UcRecvfrom: a datagram that does not come from the endpoint the
\* request was sent to is dropped and the client receives again.
UcRecvfromChecksSender(c) ==
    /\ pc[c] = "recvfrom"
    /\ LET fd == mem[c].client_socket
           legit == DatagramRecvResult(inbox[c], RecvLen)
       IN \E r \in legit \cup Fault :
        /\ Spend(r, legit)
        /\ IF r = -1
           THEN /\ Log(c, <<Call("recvfrom", fd, r), Say("cerr", "Recvfrom failed"),
                            Call("close", fd, 0)>>)
                /\ mem' = [mem EXCEPT ![c].bytes_received = r]
                /\ sock' = Closed(sock, <<c, fd>>)
                /\ inbox' = [inbox EXCEPT ![c] = <<>>]
                /\ Return(c, 1)
           ELSE LET d == Head(inbox[c]) IN
                /\ inbox' = [inbox EXCEPT ![c] = Tail(@)]
                /\ UNCHANGED sock
                /\ IF d.src # Endpoint(server_ip[c], PORT)
                   THEN /\ Log(c, <<CallEp("recvfrom", fd, r, d.src)>>)
                        /\ UNCHANGED mem
                        /\ Goto(c, "recvfrom")
                   ELSE /\ Log(c, <<CallEp("recvfrom", fd, r, d.src),
                                    Say("cout", IF r = 0 THEN "no data received"
                                                ELSE "Message received")>>)
                        /\ mem' = [mem EXCEPT ![c].bytes_received = r,
                                              ![c].server_address = d.src,
                                              ![c].buffer = Store(@, Take(d.data, r))]
                        /\ Goto(c, "close")
    /\ UNCHANGED <<msgLen, server_ip, conn, acceptq>>

\* bytes_received = recvfrom(client_socket, buffer, BUFFER_SIZE - 1, 0,
\* &server_address, &server_address_len) and the three branches on its result.
UcRecvfrom(c) ==
    /\ pc[c] = "recvfrom"
    /\ LET fd == mem[c].client_socket
           legit == DatagramRecvResult(inbox[c], RecvLen)
       IN \E r \in legit \cup Fault :
        /\ Spend(r, legit)
        /\ IF r = -1
           THEN /\ Log(c, <<Call("recvfrom", fd, r), Say("cerr", "Recvfrom failed"),
                            Call("close", fd, 0)>>)
                /\ mem' = [mem EXCEPT ![c].bytes_received = r]
                /\ sock' = Closed(sock, <<c, fd>>)
                /\ inbox' = [inbox EXCEPT ![c] = <<>>]
                /\ Return(c, 1)
           ELSE LET d == Head(inbox[c]) IN
                /\ inbox' = [inbox EXCEPT ![c] = Tail(@)]
                /\ UNCHANGED sock
                /\ Goto(c, "close")
                /\ IF r = 0
                   THEN /\ Log(c, <<CallEp("recvfrom", fd, r, d.src),
                                    Say("cout", "no data received")>>)
                        /\ mem' = [mem EXCEPT ![c].bytes_received = r,
                                              ![c].server_address = CapturedSender(mem[c].server_address, d)]
                   ELSE /\ Log(c, <<CallEp("recvfrom", fd, r, d.src),
                                    Say("cout", "Message received")>>)
                        /\ mem' = [mem EXCEPT ![c].bytes_received = r,
                                              ![c].server_address = CapturedSender(mem[c].server_address, d),
                                              ![c].buffer = Store(@, Take(d.data, r))]
    /\ UNCHANGED <<msgLen, server_ip, conn, acceptq>>

\* close(client_socket); return 0
UcClose(c) ==
    /\ pc[c] = "close"
    /\ LET fd == mem[c].client_socket
       IN /\ Log(c, <<Call("close", fd, 0), Say("cout", "Socket closed")>>)
          /\ sock' = Closed(sock, <<c, fd>>)
          /\ inbox' = [inbox EXCEPT ![c] = <<>>]
    /\ Return(c, 0)
    /\ UNCHANGED <<mem, msgLen, server_ip, conn, acceptq, faultsLeft>>

\* UDP is best effort: the network may lose a datagram on its way.
NetLose ==
    /\ \E p \in DOMAIN inbox : \E i \in 1..Len(inbox[p]) :
        inbox' = [inbox EXCEPT ![p] = SubSeq(@, 1, i - 1) \o SubSeq(@, i + 1, Len(@))]
    /\ UNCHANGED <<pc, exitCode, mem, msgLen, server_ip, trace, sock, conn, acceptq,
                   faultsLeft>>

(* --------------------------- initial states ---------------------------- *)

InitialMem(p) ==
    IF p \in StreamServers THEN StreamServerMem
    ELSE IF p \in DatagramServers THEN DatagramServerMem
    ELSE ClientMem

\* The descriptors a process may come to hold.
SockIds(P) ==
    {<<p, FirstFd>> : p \in P} \cup {<<p, FirstFd + 1>> : p \in P \cap StreamServers}

\* What a client is run with: any request with the loopback address, or the
\* request of the source with a text that is no IPv4 literal.
ClientInputs(p) ==
    {<<n, LOOPBACK>> : n \in Requests(p)}
        \cup {<<StrLen(Literal(p)), a>> : a \in ServerIps \ Ipv4Literals}

\* What process p is run with in the source: its literal, and the loopback
\* address.
SourceInput(p) == <<StrLen(Literal(p)), LOOPBACK>>

\* What the processes of P are run with: at most one of them differs from
\* the source, a client by one of its inputs or a server of V by its reply.
Inputs(P, V) ==
    {in \in [P -> (UNION {Requests(p) : p \in P}) \X ServerIps] :
        /\ \A p \in P \cap Clients : in[p] \in ClientInputs(p)
        /\ \A p \in P \cap V : in[p][1] \in Requests(p) /\ in[p][2] = LOOPBACK
        /\ \A p \in P \ (Clients \cup V) : in[p] = SourceInput(p)
        /\ \A p, q \in P : in[p] # SourceInput(p) /\ in[q] # SourceInput(q) => p = q}

\* The processes of P with inputs from `ins`, none of them having run yet;
\* the kernel may fail up to `faults` calls; the processes of Later are not
\* running yet.
StartWith(P, faults, Later, ins) ==
    /\ pc = [p \in P |-> IF p \in Later THEN "unstarted" ELSE "socket"]
    /\ exitCode = [p \in P |-> Running]
    /\ mem = [p \in P |-> InitialMem(p)]
    /\ \E in \in ins :
        /\ msgLen = [p \in P |-> in[p][1]]
        /\ server_ip = [p \in P \cap Clients |-> in[p][2]]
    /\ trace = [p \in P |-> <<>>]
    /\ sock = [id \in SockIds(P) |-> NoSocket]
    /\ conn = [c \in P \cap StreamClients |-> NoConn]
    /\ acceptq = [s \in P \cap StreamServers |-> <<>>]
    /\ inbox = [p \in P \cap (DatagramServers \cup DatagramClients) |-> <<>>]
    /\ faultsLeft = faults

\* The processes of P started together; the servers of V may be run with a
\* reply other than the source's.
Start(P, faults, V, Later) == StartWith(P, faults, Later, Inputs(P, V))

\* One stream server and one stream client.
InitStream == Start({"ts1", "tc1"}, MaxFaults, {"ts1"}, {})
\* Two stream servers on the same port, and one client.
InitTwoServers == Start({"ts1", "ts2", "tc1"}, MaxFaults, {}, {})

\* One datagram server and two datagram clients.
InitDatagram == Start({"us", "ua", "ub"}, MaxFaults, {"us"}, {})

Init == InitStream \/ InitTwoServers \/ InitDatagram

NextStream ==
    \/ \E s \in Active \cap StreamServers : TsSocket(s)
    \/ \E s \in Active \cap StreamServers : TsSetsockopt(s)
    \/ \E s \in Active \cap StreamServers : TsBind(s)
    \/ \E s \in Active \cap StreamServers : TsListen(s)
    \/ \E s \in Active \cap StreamServers : TsAccept(s)
    \/ \E s \in Active \cap StreamServers : TsRecv(s)
    \/ \E s \in Active \cap StreamServers : TsSend(s)
    \/ \E s \in Active \cap StreamServers : TsCloseClient(s)
    \/ \E s \in Active \cap StreamServers : TsCloseServer(s)
    \/ \E c \in Active \cap StreamClients : TcSocket(c)
    \/ \E c \in Active \cap StreamClients : TcInetPton(c)
    \/ \E c \in Active \cap StreamClients : TcConnect(c)
    \/ \E c \in Active \cap StreamClients : TcSend(c)
    \/ \E c \in Active \cap StreamClients : TcRecv(c)
    \/ \E c \in Active \cap StreamClients : TcClose(c)

NextDatagram ==
    \/ \E u \in Active \cap DatagramServers : UsSocket(u)
    \/ \E u \in Active \cap DatagramServers : UsSetsockopt(u)
    \/ \E u \in Active \cap DatagramServers : UsBind(u)
    \/ \E u \in Active \cap DatagramServers : UsRecvfrom(u)
    \/ \E u \in Active \cap DatagramServers : UsSendto(u)
    \/ \E c \in Active \cap DatagramClients : UcSocket(c)
    \/ \E c \in Active \cap DatagramClients : UcInetPton(c)
    \/ \E c \in Active \cap DatagramClients : UcSendto(c)
    \/ \E c \in Active \cap DatagramClients : UcRecvfrom(c)
    \/ \E c \in Active \cap DatagramClients : UcClose(c)
    \/ NetLose

Next == NextStream \/ NextDatagram

Spec == Init /\ [][Next]_vars

\* Scenario A: one stream server and one stream client, and a kernel that
\* fails no call.  Each process is a running OS process of its own: it takes
\* its next step whenever that step stays possible.
StreamServerStep(s) ==
    \/ TsSocket(s) \/ TsSetsockopt(s) \/ TsBind(s) \/ TsListen(s) \/ TsAccept(s)
    \/ TsRecv(s) \/ TsSend(s) \/ TsCloseClient(s) \/ TsCloseServer(s)

StreamClientStep(c) ==
    \/ TcSocket(c) \/ TcInetPton(c) \/ TcConnect(c) \/ TcSend(c) \/ TcRecv(c)
    \/ TcClose(c)

InitA == Start({"ts1", "tc1"}, 0, {}, {})

SpecA ==
    /\ InitA
    /\ [][NextStream]_vars
    /\ WF_vars(StreamServerStep("ts1"))
    /\ WF_vars(StreamClientStep("tc1"))

\* Successive runs: a second server and a second client of the same
\* programs, with the same inputs, are started once the processes of the
\* first run have returned.  No system call fails.
FirstRun == {"ts1", "tc1"}
SecondRun == {"ts2", "tc2"}

\* The program of process p is started: main() is entered.
Launch(p) ==
    /\ pc[p] = "unstarted"
    /\ \A q \in FirstRun : pc[q] = "done"
    /\ pc' = [pc EXCEPT ![p] = "socket"]
    /\ UNCHANGED <<exitCode, mem, msgLen, server_ip, trace, sock, conn, acceptq,
                   inbox, faultsLeft>>

\* Both runs are runs of the same two programs: the servers are those of the
\* source, the client has one of its inputs, the same in both runs.
RunInputs ==
    {in \in [FirstRun \cup SecondRun -> (UNION {Requests(p) : p \in StreamClients}) \X ServerIps] :
        /\ in["tc1"] \in ClientInputs("tc1")
        /\ in["tc2"] = in["tc1"]
        /\ \A s \in {"ts1", "ts2"} : in[s] = SourceInput(s)}

InitRuns == StartWith(FirstRun \cup SecondRun, 0, SecondRun, RunInputs)

NextRuns ==
    \/ NextStream
    \/ \E p \in SecondRun : Launch(p)

SpecRuns ==
    /\ InitRuns
    /\ [][NextRuns]_vars
    /\ \A s \in {"ts1", "ts2"} : WF_vars(StreamServerStep(s))
    /\ \A c \in {"tc1", "tc2"} : WF_vars(StreamClientStep(c))

DatagramServerStep(u) ==
    \/ UsSocket(u) \/ UsSetsockopt(u) \/ UsBind(u) \/ UsRecvfrom(u) \/ UsSendto(u)

DatagramClientStep(c) ==
    \/ UcSocket(c) \/ UcInetPton(c) \/ UcSendto(c) \/ UcRecvfrom(c) \/ UcClose(c)

\* A step of the program of process p.
Step(p) ==
    IF p \in StreamServers THEN StreamServerStep(p)
    ELSE IF p \in StreamClients THEN StreamClientStep(p)
    ELSE IF p \in DatagramServers THEN DatagramServerStep(p)
    ELSE DatagramClientStep(p)

\* Two stream clients that connect concurrently to one stream server.
InitTwoClients == Start({"ts1", "tc1", "tc2"}, MaxFaults, {}, {})

SpecTwoClients == InitTwoClients /\ [][NextStream]_vars

\* A host that is not the server: the client's socket is not connected, so
\* the kernel queues on it a datagram from any endpoint.
ForeignEndpoint == Endpoint("127.0.0.2", PORT + 1)

\* What the foreign host sends: an empty datagram or a few bytes.
StrayData == {<<>>, Fill(3)}

\* The foreign host sends a datagram to the port of client c's socket, once
\* the kernel has bound it (at the client's sendto); one such datagram is in
\* flight at a time.
Stray(c) ==
    /\ sock[<<c, FirstFd>>].st = "open" /\ sock[<<c, FirstFd>>].bound
    /\ \A i \in 1..Len(inbox[c]) : inbox[c][i].src # ForeignEndpoint
    /\ \E data \in StrayData :
          inbox' = Deliver(inbox, LocalEndpoint(c), Datagram(ForeignEndpoint, data))
    /\ UNCHANGED <<pc, exitCode, mem, msgLen, server_ip, trace, sock, conn, acceptq,
                   faultsLeft>>

\* One datagram server, one datagram client and the foreign host.
InitStray == Start({"us", "ua"}, MaxFaults, {"us"}, {})

NextStray ==
    \/ NextDatagram
    \/ \E c \in Active \cap DatagramClients : Stray(c)

SpecStray == InitStray /\ [][NextStray]_vars

(* ------------------------------ properties ----------------------------- *)

IsCall(e) == e.op \notin {"cout", "cerr"}
\* The positions in p's trace of its calls of `op`.
At(p, op) == {i \in 1..Len(trace[p]) : trace[p][i].op = op}
\* The positions in p's trace of close(fd).
ClosesOf(p, fd) == {i \in At(p, "close") : trace[p][i].fd = fd}
Terminated(p) == pc[p] = "done"
Listening(s) == sock[<<s, FirstFd>>].st = "open" /\ sock[<<s, FirstFd>>].listening
Failed(e) == IF e.op = "inet_pton" THEN e.res <= 0 ELSE e.res = -1
SetupOps == {"socket", "inet_pton", "bind", "listen", "connect", "accept"}
\* The sockets process p holds open.
OpenSockets(p) == {id \in DOMAIN sock : id[1] = p /\ sock[id].st = "open"}

\* C1: a stream server that has returned from main() holds no open socket,
\* whatever the path; the listening socket is never closed while an accepted
\* socket is still open, and close(accepted) precedes close(listening) in
\* the server's calls.
C1_ServerReleasesSockets ==
    \A s \in Active \cap StreamServers :
        LET lfd == FirstFd
            afd == FirstFd + 1
        IN /\ Terminated(s) => OpenSockets(s) = {}
           /\ sock[<<s, lfd>>].st = "closed" => sock[<<s, afd>>].st # "open"
           /\ Terminated(s) /\ sock[<<s, afd>>].st # "none" =>
                \E i \in ClosesOf(s, afd) : \E j \in ClosesOf(s, lfd) : i < j

\* C1 witness: a server that accepted a connection, failed to receive, and
\* has returned with both sockets closed.
C1_Witness ==
    \E s \in Active \cap StreamServers :
        /\ Terminated(s)
        /\ \E i \in At(s, "recv") : trace[s][i].res = -1
        /\ sock[<<s, FirstFd>>].st = "closed"
        /\ sock[<<s, FirstFd + 1>>].st = "closed"

\* C2: the socket of a client (stream or datagram) is closed at most once,
\* and a client that has returned from main() after creating its socket has
\* closed it exactly once.
C2_ClientClosesOnce ==
    \A c \in Active \cap Clients :
        LET k == sock[<<c, FirstFd>>] IN
        /\ k.closes <= 1
        /\ Cardinality(At(c, "close")) = k.closes
        /\ Terminated(c) /\ k.st # "none" => k.st = "closed" /\ k.closes = 1

\* C2 witness: a client ended on a zero-byte receive with its socket closed
\* once.
C2_Witness ==
    \E c \in Active \cap Clients :
        /\ Terminated(c)
        /\ mem[c].bytes_received = 0
        /\ sock[<<c, FirstFd>>].closes = 1

\* C3: a process whose setup call failed (socket, inet_pton, bind, listen,
\* connect, accept) has returned 1, holds no open socket and made no call
\* after the failing one other than close; a client or stream server that
\* completed its exchange (request and reply both transferred) and returned
\* has returned 0.
C3_ExitCodes ==
    \A p \in Active :
        /\ \A i \in 1..Len(trace[p]) :
              trace[p][i].op \in SetupOps /\ Failed(trace[p][i]) =>
                 /\ Terminated(p) /\ exitCode[p] = 1
                 /\ OpenSockets(p) = {}
                 /\ \A j \in (i + 1)..Len(trace[p]) :
                       trace[p][j].op \in {"cerr", "close"}
        /\ Terminated(p) <=> exitCode[p] # Running
        /\ Terminated(p) => exitCode[p] \in {0, 1}
        /\ /\ Terminated(p)
           /\ \E i \in At(p, "send") \cup At(p, "sendto") : trace[p][i].res >= 0
           /\ \E i \in At(p, "recv") \cup At(p, "recvfrom") : trace[p][i].res > 0
           => exitCode[p] = 0

\* C3 witness: one stream server failed to bind and returned 1 while the
\* client of the other completed its exchange and returned 0.
C3_Witness ==
    /\ \E s \in Active \cap StreamServers :
          /\ exitCode[s] = 1
          /\ \E i \in At(s, "bind") : trace[s][i].res = -1
    /\ \E c \in Active \cap StreamClients :
          /\ exitCode[c] = 0
          /\ mem[c].bytes_received > 0

\* The system calls of p in the order it made them.
Calls(p) == SelectSeq(trace[p], IsCall)
\* How many calls of `op` p made.
Count(p, op) == Cardinality(At(p, op))

\* C4 as stated: every accepted connection that was closed carried exactly
\* one exchange, one request received and then one reply sent.
C4_ExactlyOneExchange ==
    \A s \in Active \cap StreamServers :
        sock[<<s, FirstFd + 1>>].st = "closed" =>
            /\ Count(s, "accept") = 1 /\ Count(s, "recv") = 1 /\ Count(s, "send") = 1
            /\ \E i \in At(s, "recv") : \E j \in At(s, "send") :
                  i < j /\ trace[s][i].res > 0

\* C4 amended: the server accepts at most once, receives at most once and
\* sends at most once; it sends only after a receive that returned a positive
\* count; and a connection it has closed saw exactly one receive, and one
\* send exactly when that receive returned a positive count.
C4_AtMostOneExchange ==
    \A s \in Active \cap StreamServers :
        /\ Count(s, "accept") <= 1 /\ Count(s, "recv") <= 1 /\ Count(s, "send") <= 1
        /\ \A j \in At(s, "send") :
              \E i \in At(s, "recv") : i < j /\ trace[s][i].res > 0
        /\ \A i \in At(s, "recv") :
              \E a \in At(s, "accept") : a < i /\ trace[s][a].res >= 0
        /\ sock[<<s, FirstFd + 1>>].st = "closed" =>
              /\ Count(s, "recv") = 1
              /\ Count(s, "send") = 1 <=> mem[s].bytes_received > 0

\* C4 witness: a closed connection on which the receive returned 0 and no
\* reply was sent.
C4_Witness ==
    \E s \in Active \cap StreamServers :
        /\ sock[<<s, FirstFd + 1>>].st = "closed"
        /\ mem[s].bytes_received = 0
        /\ Count(s, "send") = 0

\* C5: every sendto of the datagram server directly follows a recvfrom that
\* returned a positive length and is addressed to the sender that recvfrom
\* reported; every such recvfrom is followed by exactly that sendto (or the
\* server is about to make it); and no client is sent more replies than the
\* non-empty datagrams the server received from it.
C5_ReplyToCapturedSender ==
    \A u \in Active \cap DatagramServers :
        LET K == Calls(u) IN
        /\ \A j \in 1..Len(K) :
              K[j].op = "sendto" =>
                 /\ j > 1
                 /\ K[j - 1].op = "recvfrom" /\ K[j - 1].res > 0
                 /\ K[j].ep = K[j - 1].ep
        /\ \A i \in 1..Len(K) :
              K[i].op = "recvfrom" /\ K[i].res > 0 =>
                 IF i = Len(K)
                 THEN pc[u] = "sendto" /\ mem[u].client_address = K[i].ep
                 ELSE K[i + 1].op = "sendto" /\ K[i + 1].ep = K[i].ep
        /\ \A c \in Active \cap DatagramClients :
              LET got == Len(inbox[c])
                         + Cardinality({i \in At(c, "recvfrom") : trace[c][i].res >= 0})
                  sent == Cardinality({j \in 1..Len(K) :
                             K[j].op = "sendto" /\ K[j].ep = LocalEndpoint(c)})
                  asked == Cardinality({i \in 1..Len(K) :
                             /\ K[i].op = "recvfrom" /\ K[i].res > 0
                             /\ K[i].ep = LocalEndpoint(c)})
              IN got <= sent /\ sent <= asked

\* C5 witness: the server has replied to two different senders.
C5_Witness ==
    \E u \in Active \cap DatagramServers :
        \E i, j \in At(u, "sendto") :
            /\ i < j
            /\ trace[u][i].ep # trace[u][j].ep
            /\ trace[u][i].res > 0 /\ trace[u][j].res > 0

\* C6: a datagram server that has bound its socket never returns from
\* main() and never closes the socket; after a failed receive, an empty
\* datagram or a send (failed or not) it is back at recvfrom, and it can
\* take the next queued datagram there.
C6_ServerStaysUp ==
    \A u \in Active \cap DatagramServers :
        (\E i \in At(u, "bind") : trace[u][i].res = 0) =>
            LET K == Calls(u)
                last == K[Len(K)]
            IN /\ pc[u] \in {"recvfrom", "sendto"}
               /\ exitCode[u] = Running
               /\ sock[<<u, FirstFd>>].st = "open" /\ sock[<<u, FirstFd>>].bound
               /\ At(u, "close") = {}
               /\ (last.op = "recvfrom" /\ last.res <= 0) \/ last.op = "sendto"
                     => pc[u] = "recvfrom"
               /\ pc[u] = "recvfrom" /\ inbox[u] # <<>> => ENABLED UsRecvfrom(u)

\* C6 witness: the server sent a reply after an iteration that failed.
C6_Witness ==
    \E u \in Active \cap DatagramServers :
        \E i, j \in 1..Len(trace[u]) :
            /\ i < j
            /\ trace[u][i].op \in {"recvfrom", "sendto"} /\ trace[u][i].res = -1
            /\ trace[u][j].op = "sendto" /\ trace[u][j].res > 0

\* C7: a server sends only after a receive of its own has returned (the
\* datagram server: the receive of the same iteration); a client is at its
\* receive, or has made it, only after its send returned without failure.
C7_SendReceiveOrder ==
    /\ \A s \in Active \cap StreamServers :
          /\ \A j \in At(s, "send") : \E i \in At(s, "recv") : i < j
          /\ pc[s] = "send" => At(s, "recv") # {}
    /\ \A u \in Active \cap DatagramServers :
          LET K == Calls(u) IN
          /\ \A j \in 1..Len(K) :
                K[j].op = "sendto" => j > 1 /\ K[j - 1].op = "recvfrom"
          /\ pc[u] = "sendto" => K[Len(K)].op = "recvfrom"
    /\ \A c \in Active \cap Clients :
          LET sentOk(j) == \E i \in At(c, "send") \cup At(c, "sendto") :
                              i < j /\ trace[c][i].res >= 0
          IN /\ \A j \in At(c, "recv") \cup At(c, "recvfrom") : sentOk(j)
             /\ pc[c] \in {"recv", "recvfrom"} => sentOk(Len(trace[c]) + 1)

\* C7 witness: a stream client waits in recv while its server, having
\* received the request, is about to send the reply.
C7_Witness ==
    \E c \in Active \cap StreamClients : \E s \in Active \cap StreamServers :
        /\ pc[c] = "recv"
        /\ pc[s] = "send"
        /\ conn[c].srv = s

\* The bytes process p holds after its receive: buffer[0 .. bytes_received-1].
Held(p) == Take(mem[p].buffer, Max(mem[p].bytes_received, 0))

\* The client of scenario A has not connected yet, its server is listening,
\* its address is a valid literal and its request fits the server's buffer.
ClientMeetsListener(c, s) ==
    /\ pc[c] \in {"socket", "inet_pton", "connect"}
    /\ pc[s] = "accept" /\ Listening(s)
    /\ InetPton(server_ip[c]) = 1
    /\ msgLen[c] \in 1..(BUFFER_SIZE - 1)

\* Both ends finished the exchange: the server holds the request, the client
\* holds the reply, no socket is open and both returned 0.
ExchangeComplete(c, s) ==
    /\ Terminated(c) /\ Terminated(s)
    /\ exitCode[c] = 0 /\ exitCode[s] = 0
    /\ Held(s) = Chars(message(c))
    /\ Held(c) = Chars(response_message(s))
    /\ BufAt(mem[s].buffer, mem[s].bytes_received) = 0
    /\ BufAt(mem[c].buffer, mem[c].bytes_received) = 0
    /\ \A id \in DOMAIN sock : sock[id].st = "closed"

\* C8: when no system call fails and the client comes to a server that is
\* already listening, the run always goes on to the completed exchange: it
\* never stops (deadlocks) before both processes returned 0 with the request
\* and the reply transferred and every socket closed.
C8_ScenarioA == ClientMeetsListener("tc1", "ts1") ~> ExchangeComplete("tc1", "ts1")

\* C8 witness: the completed exchange of the source's own request.
C8_Witness ==
    /\ ExchangeComplete("tc1", "ts1")
    /\ message("tc1") = TcpRequest
    /\ Held("ts1") = Chars(TcpRequest)

\* The stream servers other than s that are listening on the port.
OthersListening(s) == {o \in (Active \cap StreamServers) \ {s} : Listening(o)}

\* C9: a stream server that makes its bind or its listen while another
\* stream server is listening on the port ends in that very step: the call
\* is reported as failed, the socket is closed and main() returns 1, so the
\* server never listens, never accepts and never blocks; and no two servers
\* listen on the port at the same time.
C9_SecondServerFails ==
    /\ [](\A s \in Active \cap StreamServers : Listening(s) => OthersListening(s) = {})
    /\ [][\A s \in Active \cap StreamServers :
            /\ pc[s] \in {"bind", "listen"}
            /\ pc'[s] # pc[s]
            /\ OthersListening(s) # {}
            => /\ pc'[s] = "done"
               /\ exitCode'[s] = 1
               /\ sock'[<<s, FirstFd>>].st = "closed"
               /\ \E i \in 1..Len(trace'[s]) :
                     /\ trace'[s][i].op = "cerr"
                     /\ trace'[s][i].txt \in {"Bind failed", "Listen failed"}
               /\ \A i \in 1..Len(trace'[s]) :
                     trace'[s][i].op \notin {"accept", "recv", "send"}]_vars

\* C9 witness: with no call failed by the kernel for outside reasons, one
\* server listens and waits in accept while the other has failed to bind and
\* returned 1.
C9_Witness ==
    \E s, o \in Active \cap StreamServers :
        /\ s # o
        /\ faultsLeft = MaxFaults
        /\ pc[o] = "accept" /\ Listening(o)
        /\ exitCode[s] = 1
        /\ \E i \in At(s, "bind") : trace[s][i].res = -1

\* C10: for a request of 1 to BUFFER_SIZE - 1 bytes, the bytes the stream
\* server holds after a receive that returned data are the bytes of the
\* client's request, and the bytes the stream client holds after a receive
\* that returned data are the bytes of the server's response_message (the
\* fixed reply of the source).
C10_RoundTrip ==
    \A c \in Active \cap StreamClients :
        msgLen[c] \in 1..(BUFFER_SIZE - 1) =>
            /\ \A s \in Active \cap StreamServers :
                  /\ conn[c].st = "accepted" /\ conn[c].srv = s
                  /\ mem[s].bytes_received > 0
                  => /\ Held(s) = Chars(message(c))
                     /\ Len(Held(s)) = msgLen[c]
            /\ mem[c].bytes_received > 0 /\ response_message(conn[c].srv) = TcpResponse =>
                  Held(c) = Chars(response_message(conn[c].srv))

\* C10 witness: a request of BUFFER_SIZE - 1 bytes has reached the server
\* whole and the client holds the reply.
C10_Witness ==
    \E c \in Active \cap StreamClients :
        /\ msgLen[c] = BUFFER_SIZE - 1
        /\ conn[c].st = "accepted"
        /\ Len(Held(conn[c].srv)) = BUFFER_SIZE - 1
        /\ mem[c].bytes_received = StrLen(TcpResponse)

\* The process whose message receiver p took in its last receive: the peer
\* of the connection, or the owner of the endpoint recvfrom reported.
Peer(p) ==
    IF p \in StreamServers THEN ConnOf(p)
    ELSE IF p \in StreamClients THEN conn[p].srv
    ELSE IF p \in DatagramServers
    THEN CHOOSE c \in Active : LocalEndpoint(c) = mem[p].client_address
    ELSE CHOOSE u \in Active : LocalEndpoint(u) = mem[p].server_address

\* The bytes that were sent to receiver p.
Incoming(p) == Chars(message(Peer(p)))

\* C11: whenever a receiver (either server, either client) holds received
\* data: if the message sent to it has BUFFER_SIZE - 1 bytes it holds all of
\* them unchanged; if the message has BUFFER_SIZE bytes or more it holds the
\* first BUFFER_SIZE - 1 bytes of it and its byte count is BUFFER_SIZE - 1,
\* the last slot of the buffer holding the terminator.
C11_Boundary ==
    \A p \in Active :
        mem[p].bytes_received > 0 =>
            LET m == Incoming(p) IN
            /\ Len(m) = BUFFER_SIZE - 1 => Held(p) = m
            /\ Len(m) >= BUFFER_SIZE =>
                  /\ Held(p) = SubSeq(m, 1, BUFFER_SIZE - 1)
                  /\ mem[p].bytes_received = BUFFER_SIZE - 1
                  /\ Len(mem[p].buffer) = BUFFER_SIZE
                  /\ BufAt(mem[p].buffer, BUFFER_SIZE - 1) = 0

\* C11 witness: a datagram client holds the first BUFFER_SIZE - 1 bytes of a
\* reply of BUFFER_SIZE bytes.
C11_Witness ==
    \E c \in Active \cap DatagramClients :
        /\ mem[c].bytes_received = BUFFER_SIZE - 1
        /\ Len(Incoming(c)) = BUFFER_SIZE
        /\ Held(c) = SubSeq(Incoming(c), 1, BUFFER_SIZE - 1)

\* Both processes of a run have returned from main().
RunOver(c, s) == Terminated(c) /\ Terminated(s)

\* What a run leaves behind for its caller: the bytes each process received
\* and the exit codes.
Outcome(c, s) ==
    <<Held(s), mem[s].bytes_received, Held(c), mem[c].bytes_received,
      exitCode[s], exitCode[c]>>

\* C12: once the first run (server ts1, client tc1) is over, none of its
\* sockets is open or bound to the port; and when the client of the second
\* run then comes to the listening server of the second run, that run always
\* goes on to the completed exchange, with the same received request, the same
\* received reply and the same exit codes as the first run.
C12_Idempotence ==
    /\ [](RunOver("tc1", "ts1") =>
            \A id \in DOMAIN sock :
                id[1] \in FirstRun => sock[id].st # "open" /\ ~sock[id].bound)
    /\ (RunOver("tc1", "ts1") /\ ClientMeetsListener("tc2", "ts2"))
          ~> (/\ ExchangeComplete("tc2", "ts2")
              /\ ExchangeComplete("tc1", "ts1")
              /\ Outcome("tc2", "ts2") = Outcome("tc1", "ts1"))

\* C12 witness: both runs are over, each with the completed exchange of the
\* source's request, and no port is bound.
C12_Witness ==
    /\ ExchangeComplete("tc1", "ts1") /\ ExchangeComplete("tc2", "ts2")
    /\ Held("ts2") = Chars(TcpRequest) /\ Held("tc2") = Chars(TcpResponse)
    /\ Outcome("tc2", "ts2") = Outcome("tc1", "ts1")
    /\ \A id \in DOMAIN sock : ~sock[id].bound

\* The calls whose failure the programs detect, and the report each prints.
CheckedOps ==
    {"socket", "inet_pton", "bind", "listen", "accept", "connect",
     "send", "sendto", "recv", "recvfrom"}
ReportOf(op) ==
    CASE op = "socket" -> "Could not create socket"
      [] op = "inet_pton" -> "Invalid address"
      [] op = "bind" -> "Bind failed"
      [] op = "listen" -> "Listen failed"
      [] op = "accept" -> "Accept failed"
      [] op = "connect" -> "Connection failed"
      [] op = "send" -> "Send failed"
      [] op = "sendto" -> "Sendto failed"
      [] op = "recv" -> "Receive failed"
      [] op = "recvfrom" -> "Recvfrom failed"
      [] OTHER -> ""

\* C13: in every program, a failed socket, inet_pton, bind, listen, accept,
\* connect, send, sendto, recv or recvfrom is directly followed by the line
\* on std::cerr that names the failed call, before the program makes any
\* other call; no report of such a failure is printed without the failure.
C13_ErrorsReported ==
    \A p \in Active :
        LET T == trace[p] IN
        /\ \A i \in 1..Len(T) :
              T[i].op \in CheckedOps /\ Failed(T[i]) =>
                 /\ i < Len(T)
                 /\ T[i + 1].op = "cerr"
                 /\ T[i + 1].txt = ReportOf(T[i].op)
        /\ \A j \in 1..Len(T) :
              T[j].op = "cerr" /\ T[j].txt \in {ReportOf(op) : op \in CheckedOps} =>
                 /\ j > 1
                 /\ Failed(T[j - 1])
                 /\ T[j].txt = ReportOf(T[j - 1].op)

\* C13 witness: the datagram server has reported a failed recvfrom and a
\* failed sendto and is still running.
C13_Witness ==
    \E u \in Active \cap DatagramServers :
        /\ \E i \in At(u, "recvfrom") : trace[u][i].res = -1
        /\ \E i \in At(u, "sendto") : trace[u][i].res = -1
        /\ Cardinality(At(u, "cerr")) = 2
        /\ ~Terminated(u)

\* C14: a stream server that accepted a connection sends its reply exactly
\* when its receive returned a positive count.  After a receive that returned
\* 0 it makes no send and prints nothing on std::cerr; the only calls it still
\* makes are close(client_socket) and then close(server_socket), and it
\* returns 0.
C14_ZeroByteReceive ==
    \A s \in Active \cap StreamServers :
        LET T == trace[s] IN
        \A i \in At(s, "recv") :
            /\ \E a \in At(s, "accept") : a < i /\ T[a].res >= 0
            /\ T[i].res > 0 <=> (pc[s] = "send" \/ \E j \in At(s, "send") : i < j)
            /\ T[i].res = 0 =>
                  /\ At(s, "send") = {}
                  /\ \A j \in (i + 1)..Len(T) : T[j].op \in {"cout", "close"}
                  /\ pc[s] \in {"close_client", "close_server", "done"}
                  /\ pc[s] \in {"close_server", "done"} =>
                        sock[<<s, FirstFd + 1>>].st = "closed"
                  /\ pc[s] # "done" => sock[<<s, FirstFd>>].st = "open"
                  /\ pc[s] = "done" =>
                        /\ exitCode[s] = 0
                        /\ OpenSockets(s) = {}
                        /\ SelectSeq(SubSeq(T, i + 1, Len(T)), IsCall)
                              = <<Call("close", FirstFd + 1, 0), Call("close", FirstFd, 0)>>

\* C14 witness: a server whose receive returned 0 has returned 0 without a
\* send, both sockets closed.
C14_Witness ==
    \E s \in Active \cap StreamServers :
        /\ Terminated(s) /\ exitCode[s] = 0
        /\ \E i \in At(s, "recv") : trace[s][i].res = 0
        /\ At(s, "send") = {}
        /\ sock[<<s, FirstFd>>].closes = 1 /\ sock[<<s, FirstFd + 1>>].closes = 1

\* C15: the calls of the datagram server after bind form iterations: a
\* recvfrom that returned -1 or 0 is followed by the next recvfrom, with no
\* sendto in between; a recvfrom that returned a positive length is followed
\* by exactly one sendto of response_message and then by the next recvfrom.
\* So the sendto calls never outnumber the non-empty datagrams received.
C15_ReplyIffPositive ==
    \A u \in Active \cap DatagramServers :
        LET K == Calls(u)
            n == Len(K)
            pos == {i \in 1..n : K[i].op = "recvfrom" /\ K[i].res > 0}
            snd == {j \in 1..n : K[j].op = "sendto"}
        IN /\ \A i \in 1..n :
                 K[i].op = "recvfrom" =>
                    IF K[i].res > 0
                    THEN /\ IF i = n THEN pc[u] = "sendto" ELSE K[i + 1].op = "sendto"
                         /\ i + 1 = n => pc[u] = "recvfrom"
                         /\ i + 2 <= n => K[i + 2].op = "recvfrom"
                    ELSE IF i = n THEN pc[u] = "recvfrom" ELSE K[i + 1].op = "recvfrom"
           /\ \A j \in snd :
                 /\ j - 1 \in pos
                 /\ K[j].res \in {-1, StrLen(response_message(u))}
           /\ Cardinality(snd) <= Cardinality(pos)
           /\ Cardinality(snd) = Cardinality(pos) - (IF pc[u] = "sendto" THEN 1 ELSE 0)

\* C15 witness: the server took an empty datagram and a failed receive
\* without a send, and answered one non-empty datagram with one send.
C15_Witness ==
    \E u \in Active \cap DatagramServers :
        /\ \E i \in At(u, "recvfrom") : trace[u][i].res = 0
        /\ \E i \in At(u, "recvfrom") : trace[u][i].res = -1
        /\ Cardinality({i \in At(u, "recvfrom") : trace[u][i].res > 0}) = 1
        /\ Count(u, "sendto") = 1
        /\ pc[u] = "recvfrom"

\* The calls p made after position i of its trace.
CallsAfter(p, i) == SelectSeq(SubSeq(trace[p], i + 1, Len(trace[p])), IsCall)

\* The two closes of a stream server, in the order of the source.
ReleaseBoth == <<Call("close", FirstFd + 1, 0), Call("close", FirstFd, 0)>>

\* C16: a recv of the stream server that returned -1 is followed by the
\* report "Receive failed" and by no send; a send that returned -1 is
\* followed by the report "Send failed".  In both cases the only calls the
\* server makes afterwards are close(client_socket) and then
\* close(server_socket), and once it has returned both sockets are closed.
C16_TransferErrors ==
    \A s \in Active \cap StreamServers :
        LET T == trace[s] IN
        \A i \in At(s, "recv") \cup At(s, "send") :
            T[i].res = -1 =>
                /\ i < Len(T) /\ T[i + 1].op = "cerr"
                /\ T[i + 1].txt = (IF T[i].op = "recv" THEN "Receive failed" ELSE "Send failed")
                /\ T[i].op = "recv" => At(s, "send") = {} /\ pc[s] # "send"
                /\ \A j \in At(s, "send") : j <= i
                /\ pc[s] \in {"close_client", "close_server", "done"}
                /\ CallsAfter(s, i) =
                      SubSeq(ReleaseBoth, 1,
                             IF pc[s] = "close_client" THEN 0
                             ELSE IF pc[s] = "close_server" THEN 1 ELSE 2)
                /\ pc[s] = "close_client" => Cardinality(OpenSockets(s)) = 2
                /\ pc[s] = "close_server" => OpenSockets(s) = {<<s, FirstFd>>}
                /\ pc[s] = "done" => OpenSockets(s) = {}

\* C16 witness: a server whose send returned -1 has reported it, closed the
\* accepted socket, then the listening socket, and returned.
C16_Witness ==
    \E s \in Active \cap StreamServers :
        /\ Terminated(s)
        /\ \E i \in At(s, "send") :
              /\ trace[s][i].res = -1
              /\ CallsAfter(s, i) = ReleaseBoth
        /\ OpenSockets(s) = {}

\* The line a client prints after a receive that returned 0.
ZeroReport(c) ==
    IF c \in StreamClients THEN "Server closed the connection" ELSE "no data received"

\* C17: in both clients, after a send (sendto) that returned -1 the client
\* has returned 1 and never made or reached its receive; after a receive
\* (recv, recvfrom) that returned -1 it has returned 1; after a receive that
\* returned 0 it prints the report of that on std::cout, goes on to close and
\* returns 0.  In the three cases the socket is closed, once, as the last
\* call before main() returns.
C17_ClientTransferErrors ==
    \A c \in Active \cap Clients :
        LET T == trace[c]
            fd == FirstFd
        IN /\ \A i \in At(c, "send") \cup At(c, "sendto") :
                 T[i].res = -1 =>
                    /\ Terminated(c) /\ exitCode[c] = 1
                    /\ At(c, "recv") \cup At(c, "recvfrom") = {}
                    /\ CallsAfter(c, i) = <<Call("close", fd, 0)>>
                    /\ sock[<<c, fd>>].st = "closed"
           /\ \A i \in At(c, "recv") \cup At(c, "recvfrom") :
                 /\ T[i].res = -1 =>
                       /\ Terminated(c) /\ exitCode[c] = 1
                       /\ CallsAfter(c, i) = <<Call("close", fd, 0)>>
                       /\ sock[<<c, fd>>].st = "closed"
                 /\ T[i].res = 0 =>
                       /\ T[i + 1] = Say("cout", ZeroReport(c))
                       /\ At(c, "cerr") = {}
                       /\ pc[c] \in {"close", "done"}
                       /\ pc[c] = "close" =>
                             exitCode[c] = Running /\ sock[<<c, fd>>].st = "open"
                       /\ pc[c] = "done" =>
                             /\ exitCode[c] = 0
                             /\ CallsAfter(c, i) = <<Call("close", fd, 0)>>
                             /\ sock[<<c, fd>>].st = "closed"

\* C17 witness: a datagram client that received an empty datagram has
\* returned 0 with its socket closed, while the other datagram client failed
\* to send and returned 1.
C17_Witness ==
    \E c, d \in Active \cap DatagramClients :
        /\ exitCode[c] = 0
        /\ \E i \in At(c, "recvfrom") : trace[c][i].res = 0
        /\ sock[<<c, FirstFd>>].st = "closed"
        /\ exitCode[d] = 1
        /\ \E i \in At(d, "sendto") : trace[d][i].res = -1

\* The event the blocking call of p waits for has occurred: a connection is
\* queued (accept), bytes, a close or a reset have come from the peer (recv),
\* a datagram is queued (recvfrom).
Awaited(p) ==
    IF pc[p] = "accept" THEN acceptq[p] # <<>>
    ELSE IF pc[p] = "recv" /\ p \in StreamServers
    THEN LET c == ConnOf(p) IN
         StreamRecvResult(conn[c].c2s, conn[c].rst, conn[c].cClosed, RecvLen) # {}
    ELSE IF pc[p] = "recv"
    THEN StreamRecvResult(conn[p].s2c, conn[p].rst, conn[p].sClosed, RecvLen) # {}
    ELSE IF pc[p] = "recvfrom" THEN inbox[p] # <<>>
    ELSE TRUE

\* p is in accept, recv or recvfrom and what it waits for has not occurred.
Blocked(p) == pc[p] \in {"accept", "recv", "recvfrom"} /\ ~Awaited(p)

\* The sockets of p as the kernel holds them.
SocketsOf(p) == [id \in {i \in DOMAIN sock : i[1] = p} |-> sock[id]]

\* C18: a process blocked in accept, recv or recvfrom has not returned and
\* holds the socket of the call open; as long as the kernel does not fail the
\* call, no step moves it: it makes no call, prints nothing, closes no socket
\* and does not return, whatever the other processes and the network do; and
\* once the kernel fails no more calls, no step of the process is possible
\* while the awaited event has not occurred.
C18_NoTimeout ==
    /\ [](\A p \in Active :
            Blocked(p) =>
               /\ exitCode[p] = Running
               /\ sock[<<p, FirstFd>>].st = "open"
               /\ pc[p] = "recv" /\ p \in StreamServers =>
                     sock[<<p, FirstFd + 1>>].st = "open"
               /\ faultsLeft = 0 => ~ENABLED Step(p))
    /\ [][\A p \in Active :
            Blocked(p) /\ faultsLeft' = faultsLeft =>
               /\ pc'[p] = pc[p]
               /\ exitCode'[p] = exitCode[p]
               /\ trace'[p] = trace[p]
               /\ mem'[p] = mem[p]
               /\ SocketsOf(p)' = SocketsOf(p)]_vars

\* C18 witness: every process is blocked or has returned and nothing is in
\* flight: a datagram client waits in recvfrom for a reply to a request that
\* was lost, the datagram server waits in recvfrom, and no call will fail.
C18_Witness ==
    /\ faultsLeft = 0
    /\ \A p \in Active : Blocked(p) \/ Terminated(p)
    /\ \E c \in Active \cap DatagramClients : \E u \in Active \cap DatagramServers :
          /\ Blocked(c) /\ Blocked(u)
          /\ \E i \in At(c, "sendto") : trace[c][i].res > 0
          /\ \A i \in At(u, "recvfrom") : trace[u][i].ep # LocalEndpoint(c)
          /\ ~ENABLED Next

\* The results of the receives p made.
ReceiveResults(p) == {trace[p][i].res : i \in At(p, "recv") \cup At(p, "recvfrom")}

\* C19: in each of the four programs the length passed to recv/recvfrom is
\* at most BUFFER_SIZE - 1, no receive returns more than BUFFER_SIZE - 1, and
\* no index at or beyond BUFFER_SIZE of the buffer is ever written: after a
\* receive that returned n > 0 bytes, buffer[n] is the terminator and
\* n < BUFFER_SIZE.  This holds after every iteration of the datagram
\* server's loop, which writes the same buffer again.
C19_TerminatorInBounds ==
    /\ RecvLen <= BUFFER_SIZE - 1
    /\ \A p \in Active :
          /\ \A r \in ReceiveResults(p) : r <= BUFFER_SIZE - 1
          /\ mem[p].bytes_received <= BUFFER_SIZE - 1
          /\ Len(mem[p].buffer) <= BUFFER_SIZE
          /\ mem[p].bytes_received > 0 =>
                /\ mem[p].bytes_received + 1 <= Len(mem[p].buffer)
                /\ BufAt(mem[p].buffer, mem[p].bytes_received) = 0

\* C19 witness: the datagram server filled its buffer with the first
\* BUFFER_SIZE - 1 bytes of a datagram and in a later iteration received a
\* shorter one into the same buffer: the terminator follows the new bytes and
\* bytes of the earlier datagram remain behind it.
C19_Witness ==
    \E u \in Active \cap DatagramServers :
        /\ BUFFER_SIZE - 1 \in ReceiveResults(u)
        /\ mem[u].bytes_received = StrLen(UdpRequest)
        /\ Held(u) = Chars(UdpRequest)
        /\ BufAt(mem[u].buffer, mem[u].bytes_received) = 0
        /\ BufAt(mem[u].buffer, mem[u].bytes_received + 1) # 0
        /\ Len(mem[u].buffer) = BUFFER_SIZE

\* The accept of server s returned a connection.
Accepted(s) == \E a \in At(s, "accept") : trace[s][a].res >= 0

AcceptedBy(s) ==
    {c \in Active \cap StreamClients : conn[c].st \notin {"none", "queued"} /\ conn[c].srv = s}

\* Client c received data.
GotReply(c) == mem[c].bytes_received > 0

\* C21: with two stream clients and one stream server, in every interleaving
\* the server accepts at most one connection and makes at most one send, so
\* at most one client receives data, and what it receives is the server's
\* reply; a client the server did not accept is sent nothing and never
\* holds a received reply, whether it is still running or has returned.
C21_OneReplyForTwoClients ==
    \A s \in Active \cap StreamServers :
        /\ Count(s, "accept") <= 1
        /\ Count(s, "send") <= 1
        /\ Cardinality(AcceptedBy(s)) <= 1
        /\ Cardinality({c \in Active \cap StreamClients : GotReply(c)}) <= 1
        /\ \A c \in Active \cap StreamClients :
              /\ GotReply(c) =>
                    /\ c \in AcceptedBy(s)
                    /\ Held(c) = Chars(response_message(s))
                    /\ \E j \in At(s, "send") : trace[s][j].res > 0
              /\ c \notin AcceptedBy(s) =>
                    /\ conn[c].s2c = <<>>
                    /\ mem[c].bytes_received <= 0
                    /\ mem[c].buffer = EmptyBuffer
                    /\ \A i \in At(c, "recv") : trace[c][i].res <= 0

\* C21 witness: both clients connected and sent their request; one was
\* accepted, received the reply and returned 0; the other was never accepted
\* and has returned from a receive that brought no reply.
C21_Witness ==
    \E s \in Active \cap StreamServers : \E c, d \in Active \cap StreamClients :
        /\ c # d
        /\ c \in AcceptedBy(s) /\ d \notin AcceptedBy(s)
        /\ \A k \in {c, d} : \E i \in At(k, "send") : trace[k][i].res > 0
        /\ Terminated(s) /\ Terminated(c) /\ Terminated(d)
        /\ exitCode[c] = 0 /\ Held(c) = Chars(TcpResponse)
        /\ At(d, "recv") # {}
        /\ ~GotReply(d)

\* What a datagram client does after a recvfrom that returned r >= 0: the
\* line it prints, then close and the last line.
AfterReceive(r) ==
    <<Say("cout", IF r = 0 THEN "no data received" ELSE "Message received"),
      Call("close", FirstFd, 0), Say("cout", "Socket closed")>>

\* C22: a datagram client makes one recvfrom.  When that call returns a
\* datagram it is the first one queued on the socket, whatever endpoint sent
\* it: the client stores its bytes and its sender, never receives again, and
\* goes on to close and to exit code 0 with the same output as for a datagram
\* of the same length from the server.
C22_AnySenderIsTheReply ==
    /\ [](\A c \in Active \cap DatagramClients :
            /\ Count(c, "recvfrom") <= 1
            /\ \A i \in At(c, "recvfrom") :
                  LET e == trace[c][i] IN
                  e.res >= 0 =>
                     /\ pc[c] \in {"close", "done"}
                     /\ mem[c].server_address = e.ep
                     /\ mem[c].bytes_received = e.res
                     /\ SubSeq(trace[c], i + 1, Len(trace[c]))
                           = SubSeq(AfterReceive(e.res), 1, IF pc[c] = "close" THEN 1 ELSE 3)
                     /\ pc[c] = "done" =>
                           exitCode[c] = 0 /\ sock[<<c, FirstFd>>].st = "closed")
    /\ [][\A c \in Active \cap DatagramClients :
            pc[c] = "recvfrom" /\ pc'[c] # "recvfrom" /\ mem'[c].bytes_received >= 0 =>
               LET d == Head(inbox[c]) IN
               /\ inbox[c] # <<>>
               /\ mem'[c].server_address = d.src
               /\ mem'[c].bytes_received = Min(Len(d.data), BUFFER_SIZE - 1)
               /\ Take(mem'[c].buffer, mem'[c].bytes_received)
                     = Take(d.data, BUFFER_SIZE - 1)
               /\ pc'[c] = "close"]_vars

\* C22 witness: the client sent its request to the server, took a datagram
\* of the foreign host as the reply and returned 0, while the server's reply
\* to it was sent and never received.
C22_Witness ==
    \E c \in Active \cap DatagramClients : \E u \in Active \cap DatagramServers :
        /\ exitCode[c] = 0
        /\ \E i \in At(c, "sendto") :
              trace[c][i].res > 0 /\ trace[c][i].ep = LocalEndpoint(u)
        /\ \E i \in At(c, "recvfrom") :
              trace[c][i].res > 0 /\ trace[c][i].ep = ForeignEndpoint
        /\ mem[c].server_address = ForeignEndpoint
        /\ Held(c) = Fill(3)
        /\ \E j \in At(u, "sendto") :
              trace[u][j].res > 0 /\ trace[u][j].ep = LocalEndpoint(c)

====
